---- MODULE Spec2Model ----
(***************************************************************************)
(* Model of the detection-and-grouping engine of aiops-anomaly-detection   *)
(* (src/app/detection/engine.py and the scorers it dispatches to).         *)
(*                                                                         *)
(* Number representation.  Timestamps are whole seconds.  A score (a float *)
(* in the code) is kept in thousandths: 1000 stands for 1.0.  A priority,  *)
(* which the code rounds to 3 decimals, is kept in thousandths too.        *)
(* Series values are small integers.                                       *)
(***************************************************************************)
EXTENDS Integers, Sequences, FiniteSets, TLC

VARIABLES
    pc,     \* "call": the arguments are bound, the body has not run; "done": it returned
    call,   \* the operation called and its arguments
    env,    \* what the process and the third-party libraries answer during this call
    ret     \* the value returned to the caller

vars == <<pc, call, env, ret>>

(***************************************************************************)
(* Configuration: src/app/core/config.py                                   *)
(***************************************************************************)
anomaly_grouping_window_seconds == 300

(***************************************************************************)
(* Bounds of the model                                                     *)
(***************************************************************************)
MaxLen == 3

(***************************************************************************)
(* Helpers standing for Python / numpy built-ins                           *)
(***************************************************************************)
Min2(a, b) == IF a <= b THEN a ELSE b
Max2(a, b) == IF a >= b THEN a ELSE b

MinOfSet(S) == CHOOSE x \in S : \A y \in S : x <= y
MaxOfSet(S) == CHOOSE x \in S : \A y \in S : x >= y

SeqsUpTo(S, n) == UNION {[1..k -> S] : k \in 0..n}

\* any(xs) for a list of booleans
AnyTrue(xs) == \E i \in 1..Len(xs) : xs[i]

\* the number of True entries of a list of booleans
CountTrue(xs) == Cardinality({i \in 1..Len(xs) : xs[i]})

\* round(x / den, 0) for an exact rational x / den, den > 0 and even:
\* Python rounds a tie to the even neighbour.
RoundHalfEven(x, den) ==
    LET q == x \div den
        r == x % den
    IN  IF 2 * r < den THEN q
        ELSE IF 2 * r > den THEN q + 1
        ELSE IF q % 2 = 0 THEN q ELSE q + 1

(***************************************************************************)
(* AnomalyDetectionEngine._calculate_priority                              *)
(*   max_score in thousandths, points a count, duration in seconds;        *)
(*   the result is round(priority, 3) in thousandths.                      *)
(*   With P = 0.5*score + 0.3*min(points/10, 1) + 0.2*min(duration/600, 1) *)
(*   6000 * P = 3*max_score + 180*min(points, 10) + 2*min(duration, 600),  *)
(*   an integer, and 1000 * P = (6000 * P) / 6.                            *)
(***************************************************************************)
points_cap == 10
duration_cap == 600

\* (mutant) the point-count term without its cap
points_norm10_uncapped(points) == points

\* 10 * min(points / 10, 1.0)
points_norm10(points) == Min2(points, points_cap)

\* (mutant) the duration term without its cap
duration_norm600_uncapped(duration) == duration

\* 600 * min(duration / 600, 1.0)
duration_norm600(duration) == Min2(duration, duration_cap)

calculate_priority(max_score, points, duration) ==
    RoundHalfEven(3 * max_score + 180 * points_norm10(points)
                                + 2 * duration_norm600(duration), 6)

(***************************************************************************)
(* AnomalyDetectionEngine.group_anomalies                                  *)
(***************************************************************************)
NoEvent == [open |-> FALSE]

new_event(ts, score, val, metric_name) ==
    [open |-> TRUE,
     start_time |-> ts, end_time |-> ts, metric |-> metric_name,
     max_score |-> score, anomaly_points |-> 1, peak_value |-> val,
     timestamps |-> <<ts>>, values |-> <<val>>]

\* (mutant) the extension moves start_time instead of end_time
extend_event_moves_start(cur, ts, score, val) ==
    [cur EXCEPT !.start_time = ts,
                !.max_score = Max2(cur.max_score, score),
                !.anomaly_points = cur.anomaly_points + 1,
                !.timestamps = Append(cur.timestamps, ts),
                !.values = Append(cur.values, val)]

\* (mutant) the extension keeps the latest score instead of the largest
extend_event_last_score(cur, ts, score, val) ==
    [cur EXCEPT !.end_time = ts,
                !.max_score = score,
                !.anomaly_points = cur.anomaly_points + 1,
                !.timestamps = Append(cur.timestamps, ts),
                !.values = Append(cur.values, val)]

\* (mutant) the extension does not count the point
extend_event_uncounted(cur, ts, score, val) ==
    [cur EXCEPT !.end_time = ts,
                !.max_score = Max2(cur.max_score, score),
                !.timestamps = Append(cur.timestamps, ts),
                !.values = Append(cur.values, val)]

\* (mutant) the new score is compared with max_score before max_score is updated
extend_event_compares_first(cur, ts, score, val) ==
    [cur EXCEPT !.end_time = ts,
                !.max_score = Max2(cur.max_score, score),
                !.anomaly_points = cur.anomaly_points + 1,
                !.peak_value = IF score > cur.max_score THEN val ELSE cur.peak_value,
                !.timestamps = Append(cur.timestamps, ts),
                !.values = Append(cur.values, val)]

\* The branch "continue the current event" (the point lies within the window).
\* max_score is updated first; the comparison that guards peak_value then
\* reads the updated max_score.
extend_event(cur, ts, score, val) ==
    LET updated == [cur EXCEPT !.end_time = ts,
                               !.max_score = Max2(cur.max_score, score),
                               !.anomaly_points = cur.anomaly_points + 1,
                               !.timestamps = Append(cur.timestamps, ts),
                               !.values = Append(cur.values, val)]
    IN  IF score > updated.max_score
        THEN [updated EXCEPT !.peak_value = val]
        ELSE updated

\* (mutant) a point exactly one window after the event's end starts a new event
within_window_strict(time_diff) == time_diff < anomaly_grouping_window_seconds

\* (mutant) a point earlier than the event's end starts a new event
within_window_forward_only(time_diff) ==
    time_diff >= 0 /\ time_diff <= anomaly_grouping_window_seconds

\* Whether an anomalous point continues the open event.
within_window(time_diff) == time_diff <= anomaly_grouping_window_seconds

\* (mutant) a non-anomalous point leaves the open event open
scan_step_keeps_open(st, ts, is_anom, score, val, metric_name) ==
    LET cur == st.current_event
    IN  IF ~is_anom
        THEN st
        ELSE IF ~cur.open
             THEN [st EXCEPT !.current_event = new_event(ts, score, val, metric_name)]
             ELSE IF within_window(ts - cur.end_time)
                  THEN [st EXCEPT !.current_event = extend_event(cur, ts, score, val)]
                  ELSE [events |-> Append(st.events, cur),
                        current_event |-> new_event(ts, score, val, metric_name)]

\* One iteration of the for loop: st = [events, current_event].
scan_step(st, ts, is_anom, score, val, metric_name) ==
    LET cur == st.current_event
    IN  IF ~is_anom
        THEN IF cur.open
             THEN [events |-> Append(st.events, cur), current_event |-> NoEvent]
             ELSE st
        ELSE IF ~cur.open
             THEN [st EXCEPT !.current_event = new_event(ts, score, val, metric_name)]
             ELSE IF within_window(ts - cur.end_time)
                  THEN [st EXCEPT !.current_event = extend_event(cur, ts, score, val)]
                  ELSE [events |-> Append(st.events, cur),
                        current_event |-> new_event(ts, score, val, metric_name)]

\* zip(timestamps, anomalies, scores, values) stops at the shortest list.
ZipLen(timestamps, anomalies, scores, values) ==
    Min2(Min2(Len(timestamps), Len(anomalies)), Min2(Len(scores), Len(values)))

RECURSIVE scan_upto(_, _, _, _, _, _)
scan_upto(n, timestamps, anomalies, scores, values, metric_name) ==
    IF n = 0
    THEN [events |-> <<>>, current_event |-> NoEvent]
    ELSE CHOOSE st \in
             {scan_step(before, timestamps[n], anomalies[n], scores[n], values[n],
                        metric_name) :
                 before \in {scan_upto(n - 1, timestamps, anomalies, scores, values,
                                       metric_name)}} : TRUE

\* (mutant) the event still open when the scan ends is dropped
closed_events_without_last(timestamps, anomalies, scores, values, metric_name) ==
    scan_upto(ZipLen(timestamps, anomalies, scores, values),
              timestamps, anomalies, scores, values, metric_name).events

\* The events in the order the scan closed them (before durations and the sort).
closed_events(timestamps, anomalies, scores, values, metric_name) ==
    LET st == scan_upto(ZipLen(timestamps, anomalies, scores, values),
                        timestamps, anomalies, scores, values, metric_name)
    IN  IF st.current_event.open
        THEN Append(st.events, st.current_event)
        ELSE st.events

\* "Calcula duração e prioridade": the two keys added to every event.
with_priority(event) ==
    LET duration == event.end_time - event.start_time
    IN  [start_time |-> event.start_time, end_time |-> event.end_time,
         metric |-> event.metric, max_score |-> event.max_score,
         anomaly_points |-> event.anomaly_points, peak_value |-> event.peak_value,
         timestamps |-> event.timestamps, values |-> event.values,
         duration_seconds |-> duration,
         priority |-> calculate_priority(event.max_score, event.anomaly_points, duration)]

priced_events(timestamps, anomalies, scores, values, metric_name) ==
    LET evs == closed_events(timestamps, anomalies, scores, values, metric_name)
    IN  [k \in 1..Len(evs) |-> with_priority(evs[k])]

\* (mutant) an insertion that puts an event before the events it ties with
insert_before_ties(sorted, e) ==
    LET before == {i \in 1..Len(sorted) : sorted[i].priority > e.priority}
        k == IF before = {} THEN 0 ELSE MaxOfSet(before)
    IN  SubSeq(sorted, 1, k) \o <<e>> \o SubSeq(sorted, k + 1, Len(sorted))

\* list.sort(key=priority, reverse=True): a stable sort, so events of equal
\* priority keep their order.  Insertion from the left behind every event
\* whose priority is at least the new one's.
insert_by_priority(sorted, e) ==
    LET before == {i \in 1..Len(sorted) : sorted[i].priority >= e.priority}
        k == IF before = {} THEN 0 ELSE MaxOfSet(before)
    IN  SubSeq(sorted, 1, k) \o <<e>> \o SubSeq(sorted, k + 1, Len(sorted))

RECURSIVE sort_upto(_, _)
sort_upto(n, events) ==
    IF n = 0 THEN <<>>
    ELSE CHOOSE sorted \in
             {insert_by_priority(before, events[n]) :
                 before \in {sort_upto(n - 1, events)}} : TRUE

sort_by_priority(events) == sort_upto(Len(events), events)

group_anomalies(timestamps, anomalies, scores, values, metric_name) ==
    IF ~AnyTrue(anomalies)
    THEN <<>>
    ELSE sort_by_priority(priced_events(timestamps, anomalies, scores, values, metric_name))

(***************************************************************************)
(* Scorers: src/app/detection/baseline.py, ml_detectors.py, advanced.py    *)
(*                                                                         *)
(* A scorer returns [ok |-> TRUE, anomalies, scores] or, when it raises,   *)
(* [ok |-> FALSE, exc].  The models of scikit-learn and dtaianomaly are    *)
(* not code of this repository: env.lib is what the library model built    *)
(* during the call answers,                                                *)
(*   kind    "ok", "raise" (fit / predict raises) or "raise_init" (the     *)
(*           model's constructor raises),                                  *)
(*   outlier per point, whether the library labels it -1,                  *)
(*   raw     per point, the size of the library's raw score in             *)
(*           thousandths: IsolationForest.score_samples = -raw/1000,       *)
(*           -LocalOutlierFactor.negative_outlier_factor_ = raw/1000,      *)
(*           dtaianomaly decision_function = raw/1000.                     *)
(* A contamination fraction is kept in thousandths.                        *)
(***************************************************************************)
default_contamination == 10
default_window_size == 10
z_score_threshold == 3
sensitivity_low == 50
sensitivity_medium == 10
sensitivity_high == 5

Raised(exc) == [ok |-> FALSE, exc |-> exc]

\* np.zeros(len(X), dtype=bool), np.zeros(len(X))
all_normal(n) ==
    [ok |-> TRUE, anomalies |-> [i \in 1..n |-> FALSE], scores |-> [i \in 1..n |-> 0]]

RECURSIVE SumUpTo(_, _)
SumUpTo(n, X) == IF n = 0 THEN 0 ELSE SumUpTo(n - 1, X) + X[n]

Sum(X) == SumUpTo(Len(X), X)
SumSq(X) == Sum([i \in 1..Len(X) |-> X[i] * X[i]])

\* The largest r in lo..hi with r * r <= q (q >= lo * lo).
RECURSIVE ISqrtIn(_, _, _)
ISqrtIn(q, lo, hi) ==
    IF lo >= hi THEN lo
    ELSE LET mid == (lo + hi + 1) \div 2
         IN  IF mid * mid <= q THEN ISqrtIn(q, mid, hi) ELSE ISqrtIn(q, lo, mid - 1)

\* (mutant) z / (2 * threshold) without np.clip, to the nearest tenth below
clip_score_unclipped(num, den) ==
    IF num >= den THEN 100 * ISqrtIn((100 * num) \div den, 10, 1000)
    ELSE LET q1 == (1000 * num) \div den
             r1 == (1000 * num) % den
         IN  ISqrtIn(1000 * q1 + (1000 * r1) \div den, 0, 1000)

\* np.clip(z / (2 * threshold), 0, 1) in thousandths (rounded down), for
\* z = sqrt(num / den) and den = (2 * threshold)^2 * (the divisor of z^2).
clip_score(num, den) ==
    IF num >= den THEN 1000
    ELSE LET q1 == (1000 * num) \div den
             r1 == (1000 * num) % den
         IN  ISqrtIn(1000 * q1 + (1000 * r1) \div den, 0, 1000)

\* (mutant) a point is flagged from z = threshold on
zscore_fit_predict_inclusive(X, threshold, mean_exact) ==
    LET n == Len(X)
        S == Sum(X)
        B == n * SumSq(X) - S * S
        dev2(i) == (n * X[i] - S) * (n * X[i] - S)
    IN  IF B = 0
        THEN IF mean_exact \/ n < 3 \/ X[1] = 0
             THEN all_normal(n)
             ELSE [ok |-> TRUE,
                   anomalies |-> [i \in 1..n |-> 1 >= threshold * threshold],
                   scores |-> [i \in 1..n |-> clip_score(1, 4 * threshold * threshold)]]
        ELSE [ok |-> TRUE,
              anomalies |-> [i \in 1..n |-> dev2(i) >= threshold * threshold * B],
              scores |-> [i \in 1..n |-> clip_score(dev2(i), 4 * threshold * threshold * B)]]

\* ZScoreDetector.fit_predict.  With n = len(X), S = sum(X) and
\* B = n * sum(X^2) - S^2 = n^2 * std^2:  z_i^2 = (n * x_i - S)^2 / B.
\* The integers of X count a unit the z-score does not depend on, and the
\* arithmetic is in double precision: for a constant series np.mean(X) equals
\* the value only if the sum and the division round exactly (mean_exact). If
\* not (X = [0.1, 0.1, 0.1] has mean 0.10000000000000002), every point is the
\* same rounding error d away from the mean, std_ = sqrt(mean(d^2)) = |d| is not
\* 0, the guard std_ == 0 is passed and every z-score is 1.  For a series that
\* is not constant the rounding is far below a thousandth and is left out.
\* The mean of one or two equal values, and of zeros, is always exact.
zscore_fit_predict(X, threshold, mean_exact) ==
    LET n == Len(X)
        S == Sum(X)
        B == n * SumSq(X) - S * S
        dev2(i) == (n * X[i] - S) * (n * X[i] - S)
    IN  IF B = 0
        THEN IF mean_exact \/ n < 3 \/ X[1] = 0
             THEN all_normal(n)
             ELSE [ok |-> TRUE,
                   anomalies |-> [i \in 1..n |-> 1 > threshold * threshold],
                   scores |-> [i \in 1..n |-> clip_score(1, 4 * threshold * threshold)]]
        ELSE [ok |-> TRUE,
              anomalies |-> [i \in 1..n |-> dev2(i) > threshold * threshold * B],
              scores |-> [i \in 1..n |-> clip_score(dev2(i), 4 * threshold * threshold * B)]]

\* (mutant) only the points without a full window (the first window_size - 1)
\* are zeroed
moving_average_predict_short_warmup(X, window_size, threshold) ==
    LET n == Len(X)
        w == window_size
        win(i) == SubSeq(X, i - w + 1, i)
        B(i) == w * SumSq(win(i)) - Sum(win(i)) * Sum(win(i))
        num(i) == (w * X[i] - Sum(win(i))) * (w * X[i] - Sum(win(i))) * (w - 1)
    IN  IF n < w
        THEN all_normal(n)
        ELSE [ok |-> TRUE,
              anomalies |-> [i \in 1..n |->
                  IF i < w \/ B(i) = 0 THEN FALSE
                  ELSE num(i) > threshold * threshold * w * B(i)],
              scores |-> [i \in 1..n |->
                  IF i < w \/ B(i) = 0 THEN 0
                  ELSE clip_score(num(i), 4 * threshold * threshold * w * B(i))]]

\* MovingAverageDetector.fit_predict, window_size >= 2.  For position i (from 1)
\* beyond the first window_size positions, with w = window_size, the window
\* X[i-w+1 .. i], S its sum and B = w * sum(window^2) - S^2:
\*   rolling_std^2 = B / (w * (w - 1)) (sample deviation), and
\*   z_i^2 = (w * x_i - S)^2 * (w - 1) / (w * B);
\* B = 0 means rolling_std = 0, replaced by 1e-6, and x_i equals the mean: z = 0.
moving_average_predict(X, window_size, threshold) ==
    LET n == Len(X)
        w == window_size
        win(i) == SubSeq(X, i - w + 1, i)
        B(i) == w * SumSq(win(i)) - Sum(win(i)) * Sum(win(i))
        num(i) == (w * X[i] - Sum(win(i))) * (w * X[i] - Sum(win(i))) * (w - 1)
    IN  IF n < w
        THEN all_normal(n)
        ELSE [ok |-> TRUE,
              anomalies |-> [i \in 1..n |->
                  IF i <= w \/ B(i) = 0 THEN FALSE
                  ELSE num(i) > threshold * threshold * w * B(i)],
              scores |-> [i \in 1..n |->
                  IF i <= w \/ B(i) = 0 THEN 0
                  ELSE clip_score(num(i), 4 * threshold * threshold * w * B(i))]]

\* 1 / (1 + exp(scores_raw)) in thousandths, for scores_raw = -raw/1000.
logistic_score(raw) ==
    CASE raw = 0 -> 500
      [] raw = 400 -> 598
      [] raw = 700 -> 668
      [] raw = 1000 -> 731

\* IsolationForestDetector.__init__ and fit_predict
iforest_fit_predict(X, contamination, lib) ==
    IF lib.kind # "ok"
    THEN Raised("LibraryError")
    ELSE [ok |-> TRUE,
          anomalies |-> [i \in 1..Len(X) |-> lib.outlier[i]],
          scores |-> [i \in 1..Len(X) |-> logistic_score(lib.raw[i])]]

\* (x - x.min()) / (x.max() - x.min() + 1e-6) in thousandths (rounded down):
\* the epsilon keeps every quotient just below the exact one.
minmax_normalize(raw) ==
    LET lo == MinOfSet({raw[i] : i \in 1..Len(raw)})
        hi == MaxOfSet({raw[i] : i \in 1..Len(raw)})
    IN  [i \in 1..Len(raw) |->
            IF raw[i] = lo THEN 0 ELSE (1000 * (raw[i] - lo) - 1) \div (hi - lo)]

lof_n_neighbors == 20

\* LOFDetector.fit_predict
lof_fit_predict(X, contamination, lib) ==
    IF Min2(lof_n_neighbors, Len(X) - 1) < 2
    THEN all_normal(Len(X))
    ELSE IF lib.kind # "ok"
    THEN Raised("LibraryError")
    ELSE [ok |-> TRUE,
          anomalies |-> [i \in 1..Len(X) |-> lib.outlier[i]],
          scores |-> minmax_normalize(lib.raw)]

\* The k-th smallest entry of xs (k from 1).
KthSmallest(xs, k) ==
    CHOOSE v \in {xs[i] : i \in 1..Len(xs)} :
        /\ Cardinality({i \in 1..Len(xs) : xs[i] < v}) < k
        /\ Cardinality({i \in 1..Len(xs) : xs[i] <= v}) >= k

\* scores_normalized > np.percentile(scores_normalized, (1 - contamination) * 100),
\* decided on the raw scores (the normalisation is increasing): with
\* pos = (1 - contamination) * (n - 1) = k + frac, the percentile is
\* sorted[k] + frac * (sorted[k + 1] - sorted[k]) (positions from 0).
above_percentile(raw, contamination) ==
    LET n == Len(raw)
        pos1000 == (1000 - contamination) * (n - 1)
        k == pos1000 \div 1000
        frac1000 == pos1000 % 1000
        low == KthSmallest(raw, k + 1)
        high == IF k + 2 <= n THEN KthSmallest(raw, k + 2) ELSE low
    IN  [i \in 1..n |-> 1000 * raw[i] > 1000 * low + frac1000 * (high - low)]

\* DTAIDetector.__init__ (MatrixProfile() may raise) and fit_predict, whose
\* body recovers from every exception with an all-normal answer.
dtai_fit_predict(X, contamination, lib) ==
    IF lib.kind = "raise_init"
    THEN Raised("LibraryError")
    ELSE IF lib.kind = "raise"
    THEN all_normal(Len(X))
    ELSE [ok |-> TRUE,
          anomalies |-> above_percentile(lib.raw, contamination),
          scores |-> minmax_normalize(lib.raw)]

\* ProphetDetector() followed by detector.fit_predict(X): the class defines
\* __init__, fit and predict only, so the attribute lookup raises.
prophet_fit_predict(X) == Raised("AttributeError")

(***************************************************************************)
(* AnomalyDetectionEngine: the registry, the sensitivity map, detect       *)
(***************************************************************************)
methods ==
    {"z-score", "moving-average", "isolation-forest", "lof", "prophet", "dtai-auto"}

\* (mutant) every level resolves to the default contamination
get_contamination_default_only(sensitivity) == default_contamination

get_contamination_by_sensitivity(sensitivity) ==
    CASE sensitivity = "low" -> sensitivity_low
      [] sensitivity = "medium" -> sensitivity_medium
      [] sensitivity = "high" -> sensitivity_high
      [] OTHER -> default_contamination

\* A scorer's answer together with the engine methods entered to get it.
Via(name, r) == [r EXCEPT !.invoked = <<name>> \o r.invoked]
Direct(name, r) ==
    IF r.ok
    THEN [ok |-> TRUE, anomalies |-> r.anomalies, scores |-> r.scores, invoked |-> <<name>>]
    ELSE [ok |-> FALSE, exc |-> r.exc, invoked |-> <<name>>]

\* (mutant) the z-score threshold loosens with the contamination
detect_zscore_by_contamination(X, contamination, e) ==
    Direct("z-score",
           zscore_fit_predict(X, IF contamination >= sensitivity_low
                                 THEN 1 ELSE z_score_threshold, e.mean_exact))

detect_zscore(X, contamination, e) ==
    Direct("z-score", zscore_fit_predict(X, z_score_threshold, e.mean_exact))

\* (mutant) the moving-average entry asks the library model of the call
detect_moving_average_by_library(X, contamination, e) ==
    Direct("moving-average", iforest_fit_predict(X, contamination, e.lib))

detect_moving_average(X, contamination, e) ==
    Direct("moving-average",
           moving_average_predict(X, default_window_size, z_score_threshold))

detect_isolation_forest(X, contamination, e) ==
    Direct("isolation-forest", iforest_fit_predict(X, contamination, e.lib))

detect_lof(X, contamination, e) ==
    Direct("lof", lof_fit_predict(X, contamination, e.lib))

detect_prophet(X, contamination, e) ==
    LET r == prophet_fit_predict(X)
    IN  IF ~r.ok /\ r.exc = "ImportError"
        THEN Via("prophet", detect_isolation_forest(X, contamination, e))
        ELSE Direct("prophet", r)

\* (mutant) no availability test: without the package the constructor of
\* DTAIDetector raises ImportError
detect_dtai_auto_unchecked(X, contamination, e) ==
    IF ~e.dtai_available
    THEN Direct("dtai-auto", Raised("ImportError"))
    ELSE Direct("dtai-auto", dtai_fit_predict(X, contamination, e.lib))

detect_dtai_auto(X, contamination, e) ==
    IF ~e.dtai_available
    THEN Via("dtai-auto", detect_isolation_forest(X, contamination, e))
    ELSE Direct("dtai-auto", dtai_fit_predict(X, contamination, e.lib))

\* self.methods[method](X, contamination)
run_method(method, X, contamination, e) ==
    CASE method = "z-score" -> detect_zscore(X, contamination, e)
      [] method = "moving-average" -> detect_moving_average(X, contamination, e)
      [] method = "isolation-forest" -> detect_isolation_forest(X, contamination, e)
      [] method = "lof" -> detect_lof(X, contamination, e)
      [] method = "prophet" -> detect_prophet(X, contamination, e)
      [] method = "dtai-auto" -> detect_dtai_auto(X, contamination, e)

\* (mutant) an unknown method name falls back to the z-score scorer
resolve_method_zscore(method) ==
    IF method \notin methods THEN "z-score" ELSE method

\* "Seleciona método"
resolve_method(method) ==
    IF method \notin methods THEN "isolation-forest" ELSE method

\* (mutant) the count is the number of points
count_anomalies_len(anomalies) == Len(anomalies)

\* int(anomalies.sum())
count_anomalies(anomalies) == CountTrue(anomalies)

empty_result(length) ==
    [method |-> "none",
     anomalies |-> [i \in 1..length |-> FALSE],
     scores |-> [i \in 1..length |-> 0],
     timestamps |-> <<>>, values |-> <<>>,
     anomaly_count |-> 0, detection_time_ms |-> 0]

\* What a call of detect does: whether it raises, the dictionary it returns,
\* and the engine methods it entered on the way.
Returns(result, invoked) == [raised |-> FALSE, result |-> result, invoked |-> invoked]
Propagates(exc, invoked) == [raised |-> TRUE, exc |-> exc, invoked |-> invoked]

\* (mutant) the method field names the scorer dtai-auto fell back to
build_result_names_fallback(method, r, timestamps, values, e) ==
    [method |-> IF method = "dtai-auto" /\ ~e.dtai_available
                THEN "isolation-forest" ELSE method,
     anomalies |-> r.anomalies,
     scores |-> r.scores,
     timestamps |-> timestamps, values |-> values,
     anomaly_count |-> count_anomalies(r.anomalies),
     detection_time_ms |-> e.elapsed_ms]

\* "Monta resultado"
build_result(method, r, timestamps, values, e) ==
    [method |-> method,
     anomalies |-> r.anomalies,
     scores |-> r.scores,
     timestamps |-> timestamps, values |-> values,
     anomaly_count |-> count_anomalies(r.anomalies),
     detection_time_ms |-> e.elapsed_ms]

\* (mutant) the call of the scorer without the except clause
score_or_propagate(method, timestamps, values, sensitivity, e) ==
    LET r == run_method(method, values, get_contamination_by_sensitivity(sensitivity), e)
    IN  IF r.ok
        THEN Returns(build_result(method, r, timestamps, values, e), r.invoked)
        ELSE Propagates(r.exc, r.invoked)

\* "Executa detecção" and "Monta resultado" for the resolved method
score_or_recover(method, timestamps, values, sensitivity, e) ==
    LET r == run_method(method, values, get_contamination_by_sensitivity(sensitivity), e)
        got == IF r.ok THEN r ELSE all_normal(Len(values))
    IN  Returns(build_result(method, got, timestamps, values, e), r.invoked)

\* (mutant) detect without the early return for an empty series
detect_run_unguarded(timestamps, values, method, sensitivity, e) ==
    IF Len(values) = 0
    THEN Returns(build_result(resolve_method(method), all_normal(0), timestamps, values, e),
                 <<resolve_method(method)>>)
    ELSE score_or_recover(resolve_method(method), timestamps, values, sensitivity, e)

detect_run(timestamps, values, method, sensitivity, e) ==
    IF Len(values) = 0
    THEN Returns(empty_result(0), <<>>)
    ELSE score_or_recover(resolve_method(method), timestamps, values, sensitivity, e)

\* AnomalyDetectionEngine.detect: the returned dictionary
detect(timestamps, values, method, sensitivity, e) ==
    detect_run(timestamps, values, method, sensitivity, e).result

(***************************************************************************)
(* The detect endpoint: src/app/api/endpoints/detect.py                    *)
(*   A request is [series, method, sensitivity]; a series is               *)
(*   [resource_id, metric_name, timestamps, values] (its data points, at   *)
(*   least ten).  The environment of a request gives, per series, the      *)
(*   elapsed time and the library answers of its detect call, and whether  *)
(*   the database accepts the commits.                                     *)
(***************************************************************************)
\* generate_reason(method, score, value) with no threshold given: the text is
\* kept as its kind and the numbers it prints (value with 2 decimals, sigma =
\* score * 6 with 1 decimal, score with 3 decimals).
generate_reason(method, score, value) ==
    IF method = "z-score"
    THEN [kind |-> "sigma", value |-> value, sigma10 |-> RoundHalfEven(6 * score, 100)]
    ELSE IF method = "moving-average"
    THEN [kind |-> "local", value |-> value]
    ELSE [kind |-> "score", score |-> score]

NoReason == [kind |-> "none"]

\* AnomalyPoint(...): the score field is validated ge=0, le=1
valid_anomaly_point(score) == score >= 0 /\ score <= 1000

\* round(anomaly_count / total_points * 100, 2) in hundredths of a percent
anomaly_percentage(anomaly_count, total_points) ==
    IF total_points > 0
    THEN RoundHalfEven(2 * 10000 * anomaly_count, 2 * total_points)
    ELSE 0

\* The SeriesAnomaly built from the dictionary detect returned.
series_anomaly(series, method, result) ==
    LET n == Min2(Min2(Len(series.timestamps), Len(series.values)),
                  Min2(Len(result.anomalies), Len(result.scores)))
    IN  IF \E i \in 1..n : ~valid_anomaly_point(result.scores[i])
        THEN [ok |-> FALSE, exc |-> "ValidationError"]
        ELSE [ok |-> TRUE,
              value |->
                [resource_id |-> series.resource_id,
                 metric_name |-> series.metric_name,
                 method_used |-> method,
                 anomalies |->
                    [i \in 1..n |->
                        [timestamp |-> series.timestamps[i],
                         value |-> series.values[i],
                         score |-> result.scores[i],
                         is_anomaly |-> result.anomalies[i],
                         reason |-> IF result.anomalies[i]
                                    THEN generate_reason(method, result.scores[i],
                                                         series.values[i])
                                    ELSE NoReason]],
                 total_points |-> Len(series.values),
                 anomaly_count |-> result.anomaly_count,
                 anomaly_percentage |->
                    anomaly_percentage(result.anomaly_count, Len(series.values)),
                 detection_time_ms |-> result.detection_time_ms]]

\* _process_single_series: [ok |-> TRUE, value |-> SeriesAnomaly] or, when
\* detect or the validation of a point raises, [ok |-> FALSE, exc].
process_single_series(series, method, sensitivity, e) ==
    CHOOSE out \in
        {IF run.raised
         THEN [ok |-> FALSE, exc |-> run.exc]
         ELSE series_anomaly(series, method, run.result) :
            run \in {detect_run(series.timestamps, series.values, method,
                                sensitivity, e)}} : TRUE

\* (mutant) every series of a request is scored by the first series' detector
series_env_shared(e, k) ==
    [used |-> TRUE, mean_exact |-> e.mean_exact[1],
     dtai_available |-> e.dtai_available,
     elapsed_ms |-> e.elapsed_ms[k], lib |-> e.libs[1]]

\* What the detect call of the k-th series meets: a detector of its own.
series_env(e, k) ==
    [used |-> TRUE, mean_exact |-> e.mean_exact[k],
     dtai_available |-> e.dtai_available,
     elapsed_ms |-> e.elapsed_ms[k], lib |-> e.libs[k]]

\* (mutant) the results in the reverse of the request's order
gather_results_reversed(request, e) ==
    [k \in 1..Len(request.series) |->
        process_single_series(request.series[Len(request.series) + 1 - k], request.method,
                              request.sensitivity,
                              series_env(e, Len(request.series) + 1 - k))]

\* tasks = [...]; results = await asyncio.gather(*tasks)
gather_results(request, e) ==
    [k \in 1..Len(request.series) |->
        process_single_series(request.series[k], request.method,
                              request.sensitivity, series_env(e, k))]

\* The entry of all_grouped_events for one event of a series (start and end
\* times stay in seconds; isoformat() is one-to-one).
event_entry(series, event) ==
    [resource_id |-> series.resource_id,
     metric |-> event.metric,
     start_time |-> event.start_time,
     end_time |-> event.end_time,
     duration_seconds |-> event.duration_seconds,
     priority |-> event.priority,
     max_score |-> event.max_score,
     anomaly_points |-> event.anomaly_points]

\* (mutant) every series is grouped, flagged points or not
groups_series_always(result) == TRUE

\* "if result.anomaly_count > 0": whether the loop groups the series.
groups_series(result) == result.anomaly_count > 0

\* The entries one series adds to all_grouped_events.
series_events(series, result) ==
    IF groups_series(result)
    THEN CHOOSE entries \in
             {[j \in 1..Len(events) |-> event_entry(series, events[j])] :
                 events \in
                    {group_anomalies(series.timestamps,
                        [i \in 1..Len(result.anomalies) |-> result.anomalies[i].is_anomaly],
                        [i \in 1..Len(result.anomalies) |-> result.anomalies[i].score],
                        [i \in 1..Len(result.anomalies) |-> result.anomalies[i].value],
                        series.metric_name)}} : TRUE
    ELSE <<>>

\* all_grouped_events after the first n series
RECURSIVE grouped_events_upto(_, _, _)
grouped_events_upto(n, series, results) ==
    IF n = 0 THEN <<>>
    ELSE grouped_events_upto(n - 1, series, results)
         \o series_events(series[n], results[n])

\* The series (by position in the request) for which the loop has called
\* group_anomalies after the first n series.
RECURSIVE grouped_series_upto(_, _)
grouped_series_upto(n, results) ==
    IF n = 0 THEN <<>>
    ELSE grouped_series_upto(n - 1, results)
         \o (IF groups_series(results[n]) THEN <<n>> ELSE <<>>)

NoEvents == [present |-> FALSE]

HttpError(status) == [status |-> status]

\* The rest of the try block once the gather has ended.
respond(request, e, gathered) ==
    LET results == [k \in 1..Len(gathered) |-> gathered[k].value]
        all_grouped_events == grouped_events_upto(Len(results), request.series, results)
        total_anomalies == SumUpTo(Len(results),
                                   [k \in 1..Len(results) |-> results[k].anomaly_count])
    IN  IF \E k \in 1..Len(gathered) : ~gathered[k].ok
        THEN HttpError(500)
        ELSE IF ~e.db_ok
        THEN HttpError(500)
        ELSE [status |-> 200,
              results |-> results,
              grouped_events |-> IF Len(all_grouped_events) > 0
                                 THEN [present |-> TRUE, events |-> all_grouped_events]
                                 ELSE NoEvents,
              total_series |-> Len(results),
              total_anomalies |-> total_anomalies]

\* The calls of group_anomalies a request makes, as the positions of the
\* series grouped: none when the gather or the commit of the history records
\* raises, since both come before the loop.
group_calls_of(request, e, gathered) ==
    IF (\E k \in 1..Len(gathered) : ~gathered[k].ok) \/ ~e.db_ok
    THEN <<>>
    ELSE grouped_series_upto(Len(gathered), [k \in 1..Len(gathered) |-> gathered[k].value])

group_calls(request, e) ==
    CHOOSE made \in
        {group_calls_of(request, e, gathered) :
            gathered \in {gather_results(request, e)}} : TRUE

\* detect_anomalies: the DetectionResponse (status 200) or, when anything
\* inside the try block raises, HTTPException(status_code=500).
detect_anomalies(request, e) ==
    CHOOSE response \in
        {respond(request, e, gathered) :
            gathered \in {gather_results(request, e)}} : TRUE

(***************************************************************************)
(* Calls of group_anomalies and _calculate_priority.  Both are functions   *)
(* of their arguments: the initial states bind the arguments, the action   *)
(* runs the body.                                                          *)
(***************************************************************************)
MaxPointsArg == 12

NoEnv == [used |-> FALSE]
NoReturn == [returned |-> FALSE]

\* The points a call of group_anomalies is given: (is_anomaly, score, value).
PointKinds ==
    {[is_anom |-> FALSE, score |-> 300, value |-> 50],
     [is_anom |-> TRUE, score |-> 600, value |-> 70],
     [is_anom |-> TRUE, score |-> 1000, value |-> 90],
     [is_anom |-> TRUE, score |-> 1000, value |-> 70]}

\* Seconds from one point to the next: out of order, equal, well within
\* the window, exactly the window, just beyond the window.
Deltas == {-100, 0, 100, 300, 301}

Metrics == {"cpu", "memory"}

\* The timestamps of a series that starts at second 0.
RECURSIVE TimesFrom(_, _)
TimesFrom(n, deltas) ==
    IF n = 0 THEN <<>>
    ELSE IF n = 1 THEN <<0>>
    ELSE LET prev == TimesFrom(n - 1, deltas)
         IN  Append(prev, prev[n - 1] + deltas[n - 1])

GroupCalls ==
    {[op |-> "group",
      timestamps |-> TimesFrom(Len(kinds), deltas),
      anomalies |-> [i \in 1..Len(kinds) |-> kinds[i].is_anom],
      scores |-> [i \in 1..Len(kinds) |-> kinds[i].score],
      values |-> [i \in 1..Len(kinds) |-> kinds[i].value],
      metric_name |-> m] :
        kinds \in SeqsUpTo(PointKinds, MaxLen),
        deltas \in [1..(MaxLen - 1) -> Deltas],
        m \in Metrics}

PriorityScores == {-200, 0, 1, 500, 999, 1000, 1300}
PriorityDurations == {-900, -1, 0, 1, 300, 599, 600, 601, 1200}

PriorityCalls ==
    {[op |-> "priority", max_score |-> s, points |-> p, duration |-> d] :
        s \in PriorityScores, p \in 0..MaxPointsArg, d \in PriorityDurations}

InitGroup ==
    /\ pc = "call"
    /\ call \in GroupCalls
    /\ env = NoEnv
    /\ ret = NoReturn

GroupCall ==
    /\ pc = "call"
    /\ call.op = "group"
    /\ ret' = [returned |-> TRUE,
               events |-> group_anomalies(call.timestamps, call.anomalies, call.scores,
                                          call.values, call.metric_name)]
    /\ pc' = "done"
    /\ UNCHANGED <<call, env>>

NextGroup == GroupCall

SpecGroup == InitGroup /\ [][NextGroup]_vars

\* Calls of group_anomalies whose lists differ in length: the timestamps of a
\* call of GroupCalls without the last one.
RaggedGroupCalls ==
    {[c EXCEPT !.timestamps = SubSeq(c.timestamps, 1, Len(c.timestamps) - 1)] :
        c \in {g \in GroupCalls : Len(g.timestamps) >= 1}}

InitGroupRagged ==
    /\ pc = "call"
    /\ call \in GroupCalls \cup RaggedGroupCalls
    /\ env = NoEnv
    /\ ret = NoReturn

SpecGroupRagged == InitGroupRagged /\ [][NextGroup]_vars

InitPriority ==
    /\ pc = "call"
    /\ call \in PriorityCalls
    /\ env = NoEnv
    /\ ret = NoReturn

PriorityCall ==
    /\ pc = "call"
    /\ call.op = "priority"
    /\ ret' = [returned |-> TRUE,
               priority |-> calculate_priority(call.max_score, call.points, call.duration)]
    /\ pc' = "done"
    /\ UNCHANGED <<call, env>>

NextPriority == PriorityCall

SpecPriority == InitPriority /\ [][NextPriority]_vars

(***************************************************************************)
(* Calls of detect.  The initial states bind the arguments and what the    *)
(* environment answers during the call; the action runs the body.          *)
(***************************************************************************)
\* A series one point longer than the rolling window, flat with a final spike.
SpikeSeries == [i \in 1..(default_window_size + 1) |->
                    IF i = default_window_size + 1 THEN 1 ELSE 0]

SeriesChoices == SeqsUpTo({0, 1}, MaxLen) \cup {SpikeSeries}

MethodChoices == methods \cup {"bogus"}

SensitivityChoices == {"low", "medium", "high", "extreme"}

\* Elapsed wall-clock milliseconds, as rounded by detect.
ElapsedChoices == {0, 25}

\* What a library model says of one point.
LibPoints ==
    {[outlier |-> FALSE, raw |-> 400],
     [outlier |-> FALSE, raw |-> 700],
     [outlier |-> TRUE, raw |-> 700]}

LibUnused == [kind |-> "unused"]

\* The answers of a library model fitted on n points: the points beyond the
\* first MaxLen are all answered (not an outlier, raw 400).
LibResponses(n) ==
    {[kind |-> "raise"], [kind |-> "raise_init"]} \cup
    {[kind |-> "ok",
      outlier |-> [i \in 1..n |-> IF i <= Len(pts) THEN pts[i].outlier ELSE FALSE],
      raw |-> [i \in 1..n |-> IF i <= Len(pts) THEN pts[i].raw ELSE 400]] :
        pts \in [1..Min2(n, MaxLen) -> LibPoints]}

\* The methods that build no library model.
NoLibraryMethods == {"z-score", "moving-average", "prophet"}

DetectEnvs(values, method) ==
    {[used |-> TRUE, elapsed_ms |-> t, dtai_available |-> d, lib |-> l,
      mean_exact |-> x] :
        t \in ElapsedChoices,
        x \in IF method = "z-score" THEN BOOLEAN ELSE {TRUE},
        d \in IF method = "dtai-auto" THEN BOOLEAN ELSE {FALSE},
        l \in IF Len(values) = 0 \/ method \in NoLibraryMethods
              THEN {LibUnused}
              ELSE LibResponses(Len(values))}

DetectCalls ==
    {[op |-> "detect",
      timestamps |-> [i \in 1..Len(v) |-> 60 * (i - 1)],
      values |-> v, method |-> m, sensitivity |-> sv] :
        v \in SeriesChoices, m \in MethodChoices, sv \in SensitivityChoices}

InitDetect ==
    /\ pc = "call"
    /\ call \in DetectCalls
    /\ env \in DetectEnvs(call.values, call.method)
    /\ ret = NoReturn

DetectCall ==
    /\ pc = "call"
    /\ call.op = "detect"
    /\ ret' = detect_run(call.timestamps, call.values, call.method, call.sensitivity, env)
    /\ pc' = "done"
    /\ UNCHANGED <<call, env>>

NextDetect == DetectCall

SpecDetect == InitDetect /\ [][NextDetect]_vars

(***************************************************************************)
(* Calls of the scorers' fit_predict, one action per scorer class.         *)
(***************************************************************************)
MaxScorerLen == 4

\* Values of a series: flat, a small step, a spike.
ScorerValues == {0, 1, 5}

ScorerSeries == (SeqsUpTo(ScorerValues, MaxScorerLen) \ {<<>>}) \cup {SpikeSeries}

\* Thresholds in standard deviations: the configured one, and one that short
\* series can exceed.
ThresholdChoices == {1, z_score_threshold}

\* Window sizes: the smallest with a sample deviation, one more, the configured.
WindowChoices == {2, 3, default_window_size}

ContaminationChoices ==
    {get_contamination_by_sensitivity(sv) : sv \in SensitivityChoices}

\* The series handed to a library model and what the model answers.
LibraryCalls(op) ==
    {[op |-> op, X |-> v, contamination |-> c] :
        v \in SeqsUpTo({0, 1}, MaxLen) \ {<<>>}, c \in ContaminationChoices}

ScorerCalls ==
    {[op |-> "zscore", X |-> v, threshold |-> t] :
        v \in ScorerSeries, t \in ThresholdChoices}
    \cup {[op |-> "moving_average", X |-> v, window_size |-> w, threshold |-> t] :
        v \in ScorerSeries, w \in WindowChoices, t \in ThresholdChoices}
    \cup LibraryCalls("iforest") \cup LibraryCalls("lof") \cup LibraryCalls("dtai")

\* An inexact mean is drawn for thresholds above 1 only: at threshold 1 the
\* flag of a z-score of 1 would hang on its last bit.
ScorerEnvs(c) ==
    {[used |-> TRUE, mean_exact |-> x, lib |-> l] :
        x \in IF c.op = "zscore" /\ c.threshold > 1 THEN BOOLEAN ELSE {TRUE},
        l \in IF c.op \in {"zscore", "moving_average"}
              THEN {LibUnused}
              ELSE LibResponses(Len(c.X))}

InitScorer ==
    /\ pc = "call"
    /\ call \in ScorerCalls
    /\ env \in ScorerEnvs(call)
    /\ ret = NoReturn

ZScoreCall ==
    /\ pc = "call"
    /\ call.op = "zscore"
    /\ ret' = [returned |-> TRUE,
               out |-> zscore_fit_predict(call.X, call.threshold, env.mean_exact)]
    /\ pc' = "done"
    /\ UNCHANGED <<call, env>>

MovingAverageCall ==
    /\ pc = "call"
    /\ call.op = "moving_average"
    /\ ret' = [returned |-> TRUE,
               out |-> moving_average_predict(call.X, call.window_size, call.threshold)]
    /\ pc' = "done"
    /\ UNCHANGED <<call, env>>

IForestCall ==
    /\ pc = "call"
    /\ call.op = "iforest"
    /\ ret' = [returned |-> TRUE,
               out |-> iforest_fit_predict(call.X, call.contamination, env.lib)]
    /\ pc' = "done"
    /\ UNCHANGED <<call, env>>

LofCall ==
    /\ pc = "call"
    /\ call.op = "lof"
    /\ ret' = [returned |-> TRUE,
               out |-> lof_fit_predict(call.X, call.contamination, env.lib)]
    /\ pc' = "done"
    /\ UNCHANGED <<call, env>>

DtaiCall ==
    /\ pc = "call"
    /\ call.op = "dtai"
    /\ ret' = [returned |-> TRUE,
               out |-> dtai_fit_predict(call.X, call.contamination, env.lib)]
    /\ pc' = "done"
    /\ UNCHANGED <<call, env>>

NextScorer == ZScoreCall \/ MovingAverageCall \/ IForestCall \/ LofCall \/ DtaiCall

SpecScorer == InitScorer /\ [][NextScorer]_vars

(***************************************************************************)
(* Calls of get_contamination_by_sensitivity: two calls in a row on the    *)
(* engine, which keeps nothing between them.                               *)
(***************************************************************************)
LevelChoices == SensitivityChoices \cup {"", "LOW", "Medium", "none"}

ResolveCalls == {[op |-> "resolve", levels |-> <<a, b>>] : a, b \in LevelChoices}

InitResolve ==
    /\ pc = "call"
    /\ call \in ResolveCalls
    /\ env = NoEnv
    /\ ret = NoReturn

ResolveCall ==
    /\ pc = "call"
    /\ call.op = "resolve"
    /\ ret' = [returned |-> TRUE,
               contaminations |->
                   [k \in 1..Len(call.levels) |->
                       get_contamination_by_sensitivity(call.levels[k])]]
    /\ pc' = "done"
    /\ UNCHANGED <<call, env>>

NextResolve == ResolveCall

SpecResolve == InitResolve /\ [][NextResolve]_vars

(***************************************************************************)
(* Three calls of detect in a row on the one engine: a call, some other    *)
(* call, and the first call's values and method again under a sensitivity  *)
(* of its own.  The engine keeps nothing between calls; each call has its  *)
(* own elapsed time and its own library model.                             *)
(***************************************************************************)
\* A constant series, a short series with a spike, the long spike series.
RepeatSeries == {<<1, 1, 1>>, <<0, 1, 5>>, SpikeSeries}

RepeatMethods == {"z-score", "moving-average", "isolation-forest"}

RepeatSensitivities == {"low", "high", "extreme"}

\* What the library model of one call answers for n points: it raises, it
\* finds nothing, or it finds the first point.
RepeatLibs(n) ==
    {[kind |-> "raise"],
     [kind |-> "ok", outlier |-> [i \in 1..n |-> FALSE], raw |-> [i \in 1..n |-> 400]],
     [kind |-> "ok", outlier |-> [i \in 1..n |-> i = 1],
      raw |-> [i \in 1..n |-> IF i = 1 THEN 700 ELSE 400]]}

RepeatCalls ==
    {[op |-> "detect_repeat", values |-> v, method |-> m,
      sensitivity |-> s1, sensitivity_again |-> s2,
      other |-> [values |-> vo, method |-> mo, sensitivity |-> "medium"]] :
        v \in RepeatSeries, m \in RepeatMethods,
        s1 \in RepeatSensitivities, s2 \in RepeatSensitivities,
        vo \in {<<0, 1, 5>>, SpikeSeries}, mo \in RepeatMethods}

RepeatEnvs(c) ==
    {[used |-> TRUE, mean_exact |-> x, dtai_available |-> FALSE,
      elapsed_ms |-> <<0, 25, t>>, libs |-> <<l1, lo, l2>>] :
        x \in BOOLEAN, t \in ElapsedChoices,
        l1 \in RepeatLibs(Len(c.values)),
        lo \in RepeatLibs(Len(c.other.values)),
        l2 \in RepeatLibs(Len(c.values))}

\* The environment of the k-th call.
EnvOfCall(k) ==
    [used |-> TRUE, mean_exact |-> env.mean_exact,
     dtai_available |-> env.dtai_available,
     elapsed_ms |-> env.elapsed_ms[k], lib |-> env.libs[k]]

TimestampsOf(values) == [i \in 1..Len(values) |-> 60 * (i - 1)]

InitRepeat ==
    /\ pc = "call"
    /\ call \in RepeatCalls
    /\ env \in RepeatEnvs(call)
    /\ ret = [returned |-> FALSE, results |-> <<>>]

FirstDetect ==
    /\ pc = "call"
    /\ call.op = "detect_repeat"
    /\ ret' = [ret EXCEPT !.results =
                  <<detect_run(TimestampsOf(call.values), call.values, call.method,
                               call.sensitivity, EnvOfCall(1))>>]
    /\ pc' = "other"
    /\ UNCHANGED <<call, env>>

OtherDetect ==
    /\ pc = "other"
    /\ ret' = [ret EXCEPT !.results =
                  Append(ret.results,
                         detect_run(TimestampsOf(call.other.values), call.other.values,
                                    call.other.method, call.other.sensitivity,
                                    EnvOfCall(2)))]
    /\ pc' = "again"
    /\ UNCHANGED <<call, env>>

AgainDetect ==
    /\ pc = "again"
    /\ ret' = [returned |-> TRUE,
               results |->
                  Append(ret.results,
                         detect_run(TimestampsOf(call.values), call.values, call.method,
                                    call.sensitivity_again, EnvOfCall(3)))]
    /\ pc' = "done"
    /\ UNCHANGED <<call, env>>

NextRepeat == FirstDetect \/ OtherDetect \/ AgainDetect

SpecRepeat == InitRepeat /\ [][NextRepeat]_vars

(***************************************************************************)
(* The module-level engine, detection_engine, under a run of calls of      *)
(* detect and group_anomalies in any order.  The engine's attributes and   *)
(* the settings it reads are the field engine of env; each call is one     *)
(* step (the endpoint's coroutines call the engine without awaiting inside *)
(* a call), reads the registry from that field, and leaves in it whatever  *)
(* its body assigns.  ret.history keeps every call made, the environment   *)
(* it ran in and what it returned.                                         *)
(***************************************************************************)
MaxEngineCalls == 2

\* AnomalyDetectionEngine(): the registry built by __init__, and the settings
\* the methods read.
detection_engine ==
    [methods |-> methods,
     sensitivity_map |-> [l \in {"low", "medium", "high"} |->
                             get_contamination_by_sensitivity(l)],
     anomaly_grouping_window_seconds |-> anomaly_grouping_window_seconds,
     z_score_threshold |-> z_score_threshold,
     default_window_size |-> default_window_size,
     default_contamination |-> default_contamination]

\* "if method not in self.methods": the registry as the engine holds it now.
lookup_method(engine, method) ==
    IF method \notin engine.methods THEN "isolation-forest" ELSE method

\* detect on an engine in a given state.
engine_detect(engine, c, e) ==
    detect(c.timestamps, c.values, lookup_method(engine, c.method), c.sensitivity, e)

\* (mutant) detect drops the scorer it ran from the registry
engine_after_detect_forgets(engine, c) ==
    [engine EXCEPT !.methods = @ \ ({c.method} \ {"isolation-forest"})]

\* The engine after a call of detect: the body assigns no attribute of self
\* and no setting; the scorer object it builds is local to the call.
engine_after_detect(engine, c) == engine

\* The engine after a call of group_anomalies: the body assigns only locals.
engine_after_group(engine, c) == engine

EngineDetectCalls ==
    {[op |-> "detect", timestamps |-> TimestampsOf(v), values |-> v,
      method |-> m, sensitivity |-> s] :
        v \in {<<0, 1, 5>>, SpikeSeries},
        m \in {"z-score", "isolation-forest", "bogus"},
        s \in {"low", "high"}}

\* The library model of a call finds nothing, or finds the first point.
EngineDetectEnvs(c) ==
    {[used |-> TRUE, mean_exact |-> TRUE, dtai_available |-> FALSE,
      elapsed_ms |-> 0, lib |-> l] :
        l \in {r \in RepeatLibs(Len(c.values)) : r.kind = "ok"}}

EngineGroupCalls ==
    {[op |-> "group", timestamps |-> <<0, d>>, anomalies |-> <<TRUE, a>>,
      scores |-> <<600, 1000>>, values |-> <<70, 90>>, metric_name |-> "cpu"] :
        d \in {100, 301}, a \in BOOLEAN}

NoCall == [op |-> "none"]

InitEngine ==
    /\ pc = "idle"
    /\ call = NoCall
    /\ env = [used |-> TRUE, engine |-> detection_engine]
    /\ ret = [returned |-> FALSE, history |-> <<>>]

EngineDetect ==
    /\ pc = "idle"
    /\ Len(ret.history) < MaxEngineCalls
    /\ \E c \in EngineDetectCalls :
         \E e \in EngineDetectEnvs(c) :
            /\ call' = c
            /\ ret' = [returned |-> TRUE,
                       history |-> Append(ret.history,
                                          [call |-> c, e |-> e,
                                           outcome |-> engine_detect(env.engine, c, e)])]
            /\ env' = [env EXCEPT !.engine = engine_after_detect(env.engine, c)]
    /\ UNCHANGED pc

EngineGroup ==
    /\ pc = "idle"
    /\ Len(ret.history) < MaxEngineCalls
    /\ \E c \in EngineGroupCalls :
         /\ call' = c
         /\ ret' = [returned |-> TRUE,
                    history |-> Append(ret.history,
                                       [call |-> c, e |-> NoEnv,
                                        outcome |-> group_anomalies(c.timestamps, c.anomalies,
                                                                    c.scores, c.values,
                                                                    c.metric_name)])]
         /\ env' = [env EXCEPT !.engine = engine_after_group(env.engine, c)]
    /\ UNCHANGED pc

NextEngine == EngineDetect \/ EngineGroup

SpecEngine == InitEngine /\ [][NextEngine]_vars

(***************************************************************************)
(* Requests to the detect endpoint                                         *)
(***************************************************************************)
MaxSeries == 2

\* Ten equal points (the shortest series the request model accepts).
FlatSeries == [i \in 1..default_window_size |-> 1]

\* The series of a request: who reports which metric, and the data.
SeriesChoicesOfRequest ==
    {[resource_id |-> who.resource_id, metric_name |-> who.metric_name,
      timestamps |-> TimestampsOf(v), values |-> v] :
        who \in {[resource_id |-> "pod-a", metric_name |-> "cpu"],
                 [resource_id |-> "pod-b", metric_name |-> "memory"]},
        v \in {FlatSeries, SpikeSeries}}

\* The methods and sensitivities DetectionRequest accepts.
RequestMethods == {"z-score", "moving-average", "isolation-forest", "lof", "dtai-auto"}
RequestSensitivities == {"low", "medium", "high"}

Requests ==
    {[op |-> "detect_anomalies", series |-> ss, method |-> m, sensitivity |-> sv] :
        ss \in SeqsUpTo(SeriesChoicesOfRequest, MaxSeries) \ {<<>>},
        m \in RequestMethods, sv \in RequestSensitivities}

\* What the library model of one series answers for n points: it raises, it
\* finds nothing, or it finds the first and the last point.
EndpointLibs(n) ==
    {[kind |-> "raise"],
     [kind |-> "ok", outlier |-> [i \in 1..n |-> FALSE], raw |-> [i \in 1..n |-> 400]],
     [kind |-> "ok", outlier |-> [i \in 1..n |-> i = 1 \/ i = n],
      raw |-> [i \in 1..n |-> IF i = 1 \/ i = n THEN 700 ELSE 400]]}

\* The mean of a series is exact or not by its values alone.
MeanExactChoices(c) ==
    {x \in [1..Len(c.series) -> BOOLEAN] :
        \A j, k \in 1..Len(c.series) :
            /\ (c.method # "z-score" \/ c.series[k].values # FlatSeries) => x[k]
            /\ c.series[j].values = c.series[k].values => x[j] = x[k]}

RequestEnvs(c) ==
    {[used |-> TRUE, db_ok |-> ok, dtai_available |-> d, mean_exact |-> x,
      elapsed_ms |-> [k \in 1..Len(c.series) |-> t], libs |-> ls] :
        ok \in BOOLEAN,
        d \in IF c.method = "dtai-auto" THEN BOOLEAN ELSE {FALSE},
        x \in MeanExactChoices(c),
        t \in ElapsedChoices,
        ls \in IF c.method \in NoLibraryMethods
               THEN {[k \in 1..Len(c.series) |-> LibUnused]}
               ELSE {l \in [1..Len(c.series) -> UNION {EndpointLibs(Len(sr.values)) :
                                                          sr \in SeriesChoicesOfRequest}] :
                        \A k \in 1..Len(c.series) :
                            l[k] \in EndpointLibs(Len(c.series[k].values))}}

InitEndpoint ==
    /\ pc = "call"
    /\ call \in Requests
    /\ env \in RequestEnvs(call)
    /\ ret = NoReturn

DetectAnomaliesCall ==
    /\ pc = "call"
    /\ call.op = "detect_anomalies"
    /\ ret' = [returned |-> TRUE, response |-> detect_anomalies(call, env),
               group_calls |-> group_calls(call, env)]
    /\ pc' = "done"
    /\ UNCHANGED <<call, env>>

NextEndpoint == DetectAnomaliesCall

SpecEndpoint == InitEndpoint /\ [][NextEndpoint]_vars

(***************************************************************************)
(* Requests whose series differ in length, scored without a library: the   *)
(* spike of the longer series lies further from the mean, so its event has *)
(* the higher score and priority.                                          *)
(***************************************************************************)
\* Twice the rolling window of zeros, then a spike.
LongSpikeSeries == [i \in 1..(2 * default_window_size + 1) |->
                        IF i = 2 * default_window_size + 1 THEN 1 ELSE 0]

SpikeSeriesChoicesOfRequest ==
    {[resource_id |-> who.resource_id, metric_name |-> who.metric_name,
      timestamps |-> TimestampsOf(v), values |-> v] :
        who \in {[resource_id |-> "pod-a", metric_name |-> "cpu"],
                 [resource_id |-> "pod-b", metric_name |-> "memory"]},
        v \in {FlatSeries, SpikeSeries, LongSpikeSeries}}

SpikeRequests ==
    {[op |-> "detect_anomalies", series |-> ss, method |-> m, sensitivity |-> sv] :
        ss \in SeqsUpTo(SpikeSeriesChoicesOfRequest, MaxSeries) \ {<<>>},
        m \in {"z-score", "moving-average"}, sv \in {"medium", "high"}}

InitEndpointSpikes ==
    /\ pc = "call"
    /\ call \in SpikeRequests
    /\ env \in RequestEnvs(call)
    /\ ret = NoReturn

SpecEndpointSpikes == InitEndpointSpikes /\ [][NextEndpoint]_vars

(***************************************************************************)
(* Calls of a scorer directly or of detect                                 *)
(***************************************************************************)
InitScorerOrDetect == InitScorer \/ InitDetect

NextScorerOrDetect == NextScorer \/ NextDetect

SpecScorerOrDetect == InitScorerOrDetect /\ [][NextScorerOrDetect]_vars

(***************************************************************************)
(* Properties of detect (checked under SpecDetect)                         *)
(***************************************************************************)
DetectDone == pc = "done" /\ call.op = "detect"

\* What the scorer that detect selects answers for this call.
SelectedScorerAnswer ==
    run_method(resolve_method(call.method), call.values,
               get_contamination_by_sensitivity(call.sensitivity), env)

AllNormalResult(result, n) ==
    /\ Len(result.anomalies) = n
    /\ Len(result.scores) = n
    /\ \A i \in 1..n : result.anomalies[i] = FALSE /\ result.scores[i] = 0
    /\ result.anomaly_count = 0

\* C1: for non-empty values, whatever the method and sensitivity and whether
\* the scorer answers or raises, detect returns one flag and one score per
\* value and anomaly_count is the number of true flags.
C1_OnePointPerValueAndCount ==
    (DetectDone /\ Len(call.values) > 0) =>
        /\ ~ret.raised
        /\ Len(ret.result.anomalies) = Len(call.values)
        /\ Len(ret.result.scores) = Len(call.values)
        /\ ret.result.anomaly_count
             = Cardinality({i \in 1..Len(ret.result.anomalies) : ret.result.anomalies[i]})

\* The z-score scorer flagged exactly the spike of the long series.
C1_Witness ==
    /\ DetectDone
    /\ call.method = "z-score"
    /\ call.values = SpikeSeries
    /\ ret.result.anomaly_count = 1
    /\ ret.result.anomalies[Len(call.values)]
    /\ ret.result.scores[Len(call.values)] > 500

\* C2: if the selected scorer raises, detect does not raise: it returns one
\* entry per value, every flag false, every score 0, anomaly_count 0.
C2_ScorerFailureGivesAllNormal ==
    (DetectDone /\ Len(call.values) > 0 /\ ~SelectedScorerAnswer.ok) =>
        /\ ~ret.raised
        /\ AllNormalResult(ret.result, Len(call.values))

\* The isolation-forest model raised while fitting three points and detect
\* returned three normal points.
C2_Witness ==
    /\ DetectDone
    /\ call.method = "isolation-forest"
    /\ Len(call.values) = 3
    /\ env.lib.kind = "raise"
    /\ ~ret.raised
    /\ ret.result.anomalies = <<FALSE, FALSE, FALSE>>

\* C3: for a method name outside the registry detect does not fail and returns
\* the flags, scores, anomaly_count and method field ('isolation-forest') that
\* detect returns for method 'isolation-forest' on the same values and
\* sensitivity.
C3_UnknownMethodIsIsolationForest ==
    (DetectDone /\ call.method \notin methods) =>
        LET same == detect(call.timestamps, call.values, "isolation-forest",
                           call.sensitivity, env)
        IN  /\ ~ret.raised
            /\ ret.result.anomalies = same.anomalies
            /\ ret.result.scores = same.scores
            /\ ret.result.anomaly_count = same.anomaly_count
            /\ ret.result.method = same.method
            /\ Len(call.values) > 0 => ret.result.method = "isolation-forest"

\* An unknown method name was given and the isolation-forest model's outliers
\* came back as anomalies.
C3_Witness ==
    /\ DetectDone
    /\ call.method = "bogus"
    /\ Len(call.values) = 3
    /\ env.lib.kind = "ok"
    /\ ret.invoked = <<"isolation-forest">>
    /\ ret.result.anomaly_count = 2
    /\ ret.result.scores = <<668, 598, 668>>

\* C4: for an empty values list and every method and sensitivity detect raises
\* nothing, enters no scorer and returns no flag, no score and anomaly_count 0.
C4_EmptyInputGivesEmptyResult ==
    (DetectDone /\ Len(call.values) = 0) =>
        /\ ~ret.raised
        /\ ret.invoked = <<>>
        /\ ret.result.anomalies = <<>>
        /\ ret.result.scores = <<>>
        /\ ret.result.anomaly_count = 0

\* detect returned for an empty series under a method of the registry.
C4_Witness ==
    /\ DetectDone
    /\ call.values = <<>>
    /\ call.method = "lof"
    /\ call.sensitivity = "high"
    /\ ret.result.method = "none"

\* C19: when the dtaianomaly package is unavailable, detect with method
\* 'dtai-auto' does not fail and returns the flags and scores that detect with
\* method 'isolation-forest' returns on the same values and sensitivity.
C19_DtaiUnavailableIsIsolationForest ==
    (DetectDone /\ call.method = "dtai-auto" /\ ~env.dtai_available) =>
        LET same == detect(call.timestamps, call.values, "isolation-forest",
                           call.sensitivity, env)
        IN  /\ ~ret.raised
            /\ ret.result.anomalies = same.anomalies
            /\ ret.result.scores = same.scores

\* Without the package a 'dtai-auto' call went through the isolation-forest
\* entry and returned that model's one outlier.
C19_Witness ==
    /\ DetectDone
    /\ call.method = "dtai-auto"
    /\ ~env.dtai_available
    /\ Len(call.values) = 3
    /\ env.lib.kind = "ok"
    /\ ret.invoked = <<"dtai-auto", "isolation-forest">>
    /\ ret.result.method = "dtai-auto"
    /\ ret.result.anomaly_count = 1
    /\ ret.result.scores = <<598, 668, 598>>

\* C26: for non-empty input the method field of the outcome of detect is the
\* requested name when the registry holds it (also when the scorer fell back
\* to isolation-forest or failed) and 'isolation-forest' otherwise; for empty
\* input it is 'none'.
C26_MethodFieldOfOutcome ==
    DetectDone =>
        /\ ~ret.raised
        /\ ret.result.method =
              IF Len(call.values) = 0 THEN "none"
              ELSE IF call.method \in methods THEN call.method
              ELSE "isolation-forest"

\* A 'prophet' call on three values failed inside the scorer and was answered
\* all-normal under the name 'prophet'.
C26_Witness ==
    /\ DetectDone
    /\ call.method = "prophet"
    /\ Len(call.values) = 3
    /\ ret.invoked = <<"prophet">>
    /\ ~run_method("prophet", call.values,
                   get_contamination_by_sensitivity(call.sensitivity), env).ok
    /\ ret.result.method = "prophet"
    /\ ret.result.anomaly_count = 0

(***************************************************************************)
(* Properties of group_anomalies (checked under SpecGroup)                 *)
(***************************************************************************)
GroupDone == pc = "done" /\ call.op = "group"

\* The timestamps of the call are in chronological (non-decreasing) order.
Chronological ==
    \A i \in 1..(Len(call.timestamps) - 1) : call.timestamps[i] <= call.timestamps[i + 1]

\* The timestamps of the call strictly increase (a Series of the data model).
StrictlyChronological ==
    \A i \in 1..(Len(call.timestamps) - 1) : call.timestamps[i] < call.timestamps[i + 1]

\* The input positions flagged anomalous.
Flagged == {i \in 1..Len(call.anomalies) : call.anomalies[i]}

\* The events of the call in the order the scan closed them, priced.
Priced ==
    priced_events(call.timestamps, call.anomalies, call.scores, call.values,
                  call.metric_name)

\* The number of points in the events closed before the k-th.
RECURSIVE PointsBefore(_)
PointsBefore(k) ==
    IF k <= 1 THEN 0 ELSE PointsBefore(k - 1) + Len(Priced[k - 1].timestamps)

\* The input positions merged into the k-th closed event: the events take the
\* flagged positions in order, each as many as it lists timestamps.
Constituents(k) ==
    {i \in Flagged :
        LET rank == Cardinality({j \in Flagged : j <= i})
        IN  /\ rank > PointsBefore(k)
            /\ rank <= PointsBefore(k) + Len(Priced[k].timestamps)}

\* The returned list holds exactly the closed events, in some order.
ReturnedArePriced ==
    /\ Len(ret.events) = Len(Priced)
    /\ \A k \in 1..Len(Priced) :
          Cardinality({i \in 1..Len(ret.events) : ret.events[i] = Priced[k]})
            = Cardinality({j \in 1..Len(Priced) : Priced[j] = Priced[k]})

\* The two flagged positions of a call in which exactly two points are flagged.
FirstFlagged == MinOfSet(Flagged)
LastFlagged == MaxOfSet(Flagged)
FlaggedGap == call.timestamps[LastFlagged] - call.timestamps[FirstFlagged]

\* C5 as stated: with exactly two flagged points in a chronological series, a
\* gap of at most the window gives exactly one event that contains both, a
\* larger gap gives exactly two events -- wherever the two points lie.
\* (Stated for strictly increasing timestamps, the narrowest reading.)
C5_TwoPointsMergeByGapAlone ==
    (GroupDone /\ StrictlyChronological /\ Cardinality(Flagged) = 2) =>
        IF FlaggedGap <= anomaly_grouping_window_seconds
        THEN /\ Len(ret.events) = 1
             /\ ret.events[1].timestamps
                  = <<call.timestamps[FirstFlagged], call.timestamps[LastFlagged]>>
        ELSE Len(ret.events) = 2

\* C5 amended: with exactly two flagged points in a chronological series, the
\* result is exactly one event containing both when the two points are at
\* adjacent input positions and their gap is at most the window; it is exactly
\* two events when the gap exceeds the window or a non-flagged point lies
\* between them.
C5_TwoAdjacentPointsMerge ==
    (GroupDone /\ Chronological /\ Cardinality(Flagged) = 2) =>
        IF /\ LastFlagged = FirstFlagged + 1
           /\ FlaggedGap <= anomaly_grouping_window_seconds
        THEN /\ Len(ret.events) = 1
             /\ ret.events[1].anomaly_points = 2
             /\ ret.events[1].timestamps
                  = <<call.timestamps[FirstFlagged], call.timestamps[LastFlagged]>>
        ELSE Len(ret.events) = 2

\* Two adjacent flagged points exactly one window apart were merged, with a
\* non-flagged point elsewhere in the series.
C5_Witness ==
    /\ GroupDone /\ Chronological /\ Cardinality(Flagged) = 2
    /\ Len(call.anomalies) = 3
    /\ LastFlagged = FirstFlagged + 1
    /\ FlaggedGap = anomaly_grouping_window_seconds
    /\ Len(ret.events) = 1

\* C6: the returned list is the stable descending arrangement of the closed
\* events: priorities never increase along the list, and events of equal
\* priority appear in the order in which the scan closed them.
C6_SortedByPriorityStable ==
    GroupDone =>
        \E p \in [1..Len(Priced) -> 1..Len(Priced)] :
            /\ Len(ret.events) = Len(Priced)
            /\ \A k, l \in 1..Len(Priced) : k # l => p[k] # p[l]
            /\ \A k \in 1..Len(Priced) : ret.events[k] = Priced[p[k]]
            /\ \A k, l \in 1..Len(Priced) :
                  k < l => /\ ret.events[k].priority >= ret.events[l].priority
                           /\ ret.events[k].priority = ret.events[l].priority
                                => p[k] < p[l]

\* Three events were returned, the first of higher priority than the two that
\* follow, which tie and are distinct, and the scan closed the first-returned
\* event last.
C6_Witness ==
    /\ GroupDone
    /\ Len(ret.events) = 3
    /\ ret.events[1].priority > ret.events[2].priority
    /\ ret.events[2].priority = ret.events[3].priority
    /\ ret.events[2] # ret.events[3]
    /\ ret.events[1] = Priced[3]

\* C7: for chronological timestamps (the scores of every call lie in [0,1]),
\* every returned event has start_time <= end_time, at least one point and a
\* priority in [0,1].
ScoresInUnitInterval ==
    \A i \in 1..Len(call.scores) : call.scores[i] >= 0 /\ call.scores[i] <= 1000

C7_EventInvariant ==
    (GroupDone /\ Chronological /\ ScoresInUnitInterval) =>
        \A k \in 1..Len(ret.events) :
            /\ ret.events[k].start_time <= ret.events[k].end_time
            /\ ret.events[k].anomaly_points >= 1
            /\ ret.events[k].priority >= 0
            /\ ret.events[k].priority <= 1000

\* An event of three points that lasts as long as the duration cap was
\* returned for a chronological series.
C7_Witness ==
    /\ GroupDone /\ Chronological /\ ScoresInUnitInterval
    /\ \E k \in 1..Len(ret.events) :
          /\ ret.events[k].anomaly_points = 3
          /\ ret.events[k].end_time - ret.events[k].start_time >= duration_cap

\* C8: every returned event's duration_seconds is end_time - start_time, its
\* start and end are the timestamps of its first and last point, and its
\* max_score is the largest score among the points merged into it.
C8_DurationAndMaxScore ==
    GroupDone =>
        /\ ReturnedArePriced
        /\ \A k \in 1..Len(Priced) :
              LET e == Priced[k]
                  pts == Constituents(k)
              IN  /\ e.duration_seconds = e.end_time - e.start_time
                  /\ pts # {}
                  /\ e.start_time = call.timestamps[MinOfSet(pts)]
                  /\ e.end_time = call.timestamps[MaxOfSet(pts)]
                  /\ e.max_score = MaxOfSet({call.scores[i] : i \in pts})
                  /\ (Cardinality(pts) = 1 => e.duration_seconds = 0)

\* An event of several points was returned whose largest score is not its
\* last point's, next to a single-point event.
C8_Witness ==
    /\ GroupDone
    /\ Len(ret.events) = 2
    /\ \E k \in 1..2 :
          /\ Cardinality(Constituents(k)) = 2
          /\ Priced[k].max_score = 1000
          /\ call.scores[MaxOfSet(Constituents(k))] = 600
          /\ Priced[k].duration_seconds = 300
    /\ \E k \in 1..2 : Priced[k].anomaly_points = 1 /\ Priced[k].duration_seconds = 0

\* C9 as stated: every returned event's peak_value is the value of the point
\* that set its maximum score, i.e. of the first of its points that has the
\* event's max_score.  (Stated for strictly increasing timestamps, the
\* narrowest reading.)
C9_PeakTracksMaxScorePoint ==
    (GroupDone /\ StrictlyChronological) =>
        \A k \in 1..Len(Priced) :
            LET pts == Constituents(k)
                top == MinOfSet({i \in pts : call.scores[i] = Priced[k].max_score})
            IN  Priced[k].peak_value = call.values[top]

\* The positions of S in increasing order.
RECURSIVE InOrder(_)
InOrder(S) ==
    IF S = {} THEN <<>>
    ELSE <<MinOfSet(S)>> \o InOrder(S \ {MinOfSet(S)})

\* Two input positions were merged into the same event.
SameEvent(i, j) ==
    \E k \in 1..Len(Priced) : i \in Constituents(k) /\ j \in Constituents(k)

\* C25: every returned event consists of flagged points at adjacent input
\* positions; two flagged points at adjacent positions are in the same event
\* exactly when the later timestamp minus the earlier is at most the window;
\* so every consecutive pair of points inside an event is at most the window
\* apart.
C25_EventsAreRunsWithinWindow ==
    GroupDone =>
        /\ ReturnedArePriced
        /\ \A k \in 1..Len(Priced) :
              LET pts == Constituents(k)
                  order == InOrder(pts)
              IN  /\ pts # {}
                  /\ pts = MinOfSet(pts)..MaxOfSet(pts)
                  /\ \A i \in pts : call.anomalies[i]
                  /\ Priced[k].timestamps =
                        [j \in 1..Len(order) |-> call.timestamps[order[j]]]
                  /\ Priced[k].values = [j \in 1..Len(order) |-> call.values[order[j]]]
                  /\ \A i \in pts :
                        (i + 1) \in pts =>
                            call.timestamps[i + 1] - call.timestamps[i]
                                <= anomaly_grouping_window_seconds
        /\ \A i \in 1..(Len(call.anomalies) - 1) :
              (call.anomalies[i] /\ call.anomalies[i + 1]) =>
                  (SameEvent(i, i + 1) <=>
                     call.timestamps[i + 1] - call.timestamps[i]
                         <= anomaly_grouping_window_seconds)

\* Of three flagged points the first two, exactly one window apart, were
\* merged and the third, one second more than a window later, was not.
C25_Witness ==
    /\ GroupDone
    /\ Len(call.anomalies) = 3
    /\ Len(ret.events) = 2
    /\ Flagged = {1, 2, 3}
    /\ call.timestamps = <<0, 300, 601>>
    /\ SameEvent(1, 2)
    /\ ~SameEvent(2, 3)

\* The sum of anomaly_points over the first n returned events.
RECURSIVE PointCountUpTo(_)
PointCountUpTo(n) ==
    IF n = 0 THEN 0 ELSE PointCountUpTo(n - 1) + ret.events[n].anomaly_points

\* The timestamps, and the values, listed by the first n closed events.
RECURSIVE ListedUpTo(_)
ListedUpTo(n) ==
    IF n = 0 THEN [timestamps |-> <<>>, values |-> <<>>]
    ELSE LET before == ListedUpTo(n - 1)
         IN  [timestamps |-> before.timestamps \o Priced[n].timestamps,
              values |-> before.values \o Priced[n].values]

\* C27: for lists of equal length the anomaly_points of the returned events
\* add up to the number of flagged points: the events together list every
\* flagged point once, in input order, and no point that is not flagged.
C27_PointCountsAddUpToFlagged ==
    GroupDone =>
        LET order == InOrder(Flagged)
        IN  /\ ReturnedArePriced
            /\ PointCountUpTo(Len(ret.events)) = Cardinality(Flagged)
            /\ \A k \in 1..Len(ret.events) :
                  /\ ret.events[k].anomaly_points = Len(ret.events[k].timestamps)
                  /\ ret.events[k].anomaly_points >= 1
            /\ ListedUpTo(Len(Priced)).timestamps =
                  [j \in 1..Len(order) |-> call.timestamps[order[j]]]
            /\ ListedUpTo(Len(Priced)).values =
                  [j \in 1..Len(order) |-> call.values[order[j]]]

\* Three flagged points, the first alone and the other two merged, were
\* returned as an event of two points and an event of one.
C27_Witness ==
    /\ GroupDone
    /\ call.anomalies = <<TRUE, TRUE, TRUE>>
    /\ call.timestamps = <<0, 301, 401>>
    /\ Len(ret.events) = 2
    /\ {ret.events[1].anomaly_points, ret.events[2].anomaly_points} = {1, 2}
    /\ PointCountUpTo(2) = 3

\* C28: the peak_value of every returned event is the value of the event's
\* first point: when an event is extended max_score is raised before the new
\* score is compared with it, so peak_value is never assigned again.
C28_PeakValueIsFirstPointValue ==
    GroupDone =>
        /\ ReturnedArePriced
        /\ \A k \in 1..Len(Priced) :
              /\ Priced[k].peak_value = call.values[MinOfSet(Constituents(k))]
              /\ Priced[k].peak_value = Priced[k].values[1]

\* An event of two points was returned whose second point has the higher
\* score and another value, and whose peak_value is the first point's value.
C28_Witness ==
    /\ GroupDone
    /\ Len(ret.events) = 1
    /\ ret.events[1].anomaly_points = 2
    /\ call.scores[MinOfSet(Flagged)] = 600
    /\ call.scores[MaxOfSet(Flagged)] = 1000
    /\ ret.events[1].max_score = 1000
    /\ ret.events[1].values = <<70, 90>>
    /\ ret.events[1].peak_value = 70

\* C29: for every input, timestamps out of order included, each returned
\* event starts at the timestamp of the first point merged into it and ends at
\* the timestamp of the last, in iteration order; a flagged point that follows
\* a flagged point with a later timestamp is merged into the same event.
C29_StartEndInIterationOrder ==
    GroupDone =>
        /\ ReturnedArePriced
        /\ \A k \in 1..Len(Priced) :
              /\ Priced[k].start_time = call.timestamps[MinOfSet(Constituents(k))]
              /\ Priced[k].end_time = call.timestamps[MaxOfSet(Constituents(k))]
              /\ Priced[k].start_time = Priced[k].timestamps[1]
              /\ Priced[k].end_time = Priced[k].timestamps[Len(Priced[k].timestamps)]
        /\ \A i \in 1..(Len(call.anomalies) - 1) :
              (/\ call.anomalies[i] /\ call.anomalies[i + 1]
               /\ call.timestamps[i + 1] < call.timestamps[i]) => SameEvent(i, i + 1)

\* Three flagged points with the second 301 s after the first and the third
\* 100 s before the second: the third was merged with the second into an
\* event that ends before it starts.
C29_Witness ==
    /\ GroupDone
    /\ call.anomalies = <<TRUE, TRUE, TRUE>>
    /\ call.timestamps = <<0, 301, 201>>
    /\ Len(Priced) = 2
    /\ Priced[1].timestamps = <<0>>
    /\ Priced[2].start_time = 301
    /\ Priced[2].end_time = 201
    /\ Priced[2].duration_seconds = -100

(***************************************************************************)
(* Properties of _calculate_priority (checked under SpecPriority)          *)
(***************************************************************************)
PriorityDone == pc = "done" /\ call.op = "priority"

MaxScoreInUnitInterval == call.max_score >= 0 /\ call.max_score <= 1000

\* min(points/10, 1) and min(duration/600, 1) lie in [0,1], and so does the
\* returned priority.
TermsAndPriorityInUnitInterval ==
    /\ points_norm10(call.points) >= 0
    /\ points_norm10(call.points) <= 10
    /\ duration_norm600(call.duration) >= 0
    /\ duration_norm600(call.duration) <= 600
    /\ ret.priority >= 0
    /\ ret.priority <= 1000

\* C10 as stated: for every max_score in [0,1], every point_count and every
\* duration_seconds, both capped terms and the priority lie in [0,1].
C10_PriorityBoundedForEveryInput ==
    (PriorityDone /\ MaxScoreInUnitInterval) => TermsAndPriorityInUnitInterval

\* C10 amended: for every max_score in [0,1], every point_count >= 0 and every
\* duration_seconds >= 0, both capped terms and the priority lie in [0,1].
C10_PriorityBoundedForNonNegativeInput ==
    (PriorityDone /\ MaxScoreInUnitInterval /\ call.points >= 0 /\ call.duration >= 0)
        => TermsAndPriorityInUnitInterval

\* The ranker returned 1.0 for a full score with a point count and a duration
\* beyond their caps.
C10_Witness ==
    /\ PriorityDone
    /\ call.max_score = 1000
    /\ call.points > points_cap
    /\ call.duration > duration_cap
    /\ ret.priority = 1000

\* 6000 times the ranker's formula as the specification writes it, each capped
\* term by cases: 0.5*max_score + 0.3*min(point_count/10, 1)
\* + 0.2*min(duration_seconds/600, 1).
StatedPriority6000(max_score, point_count, duration_seconds) ==
    3 * max_score
    + (IF point_count >= 10 THEN 1800 ELSE 180 * point_count)
    + (IF duration_seconds >= 600 THEN 1200 ELSE 2 * duration_seconds)

\* r (in thousandths) is x6000 / 6000 rounded to three decimals: a nearest
\* thousandth, either neighbour on a tie.
RoundedTo3(r, x6000) == 6 * r - x6000 <= 3 /\ x6000 - 6 * r <= 3

\* C11: the ranker returns 0.5*max_score + 0.3*min(point_count/10, 1)
\* + 0.2*min(duration_seconds/600, 1) rounded to 3 decimals; priority(1.0, 10,
\* 600) = 1.0 and priority(0.0, 0, 0) = 0.0; a point_count above 10 or a
\* duration_seconds above 600 gives the priority of the capped argument.
C11_PriorityFormulaAndCaps ==
    PriorityDone =>
        /\ RoundedTo3(ret.priority,
                      StatedPriority6000(call.max_score, call.points, call.duration))
        /\ (call.max_score = 1000 /\ call.points = 10 /\ call.duration = 600)
               => ret.priority = 1000
        /\ (call.max_score = 0 /\ call.points = 0 /\ call.duration = 0)
               => ret.priority = 0
        /\ call.points > 10 =>
               ret.priority = calculate_priority(call.max_score, 10, call.duration)
        /\ call.duration > 600 =>
               ret.priority = calculate_priority(call.max_score, call.points, 600)

\* The ranker was called with 12 points lasting 1200 s at score 0.5 and
\* returned 0.75, the priority of 10 points lasting 600 s.
C11_Witness ==
    /\ PriorityDone
    /\ call.max_score = 500
    /\ call.points = 12
    /\ call.duration = 1200
    /\ ret.priority = 750

(***************************************************************************)
(* Properties of group_anomalies for lists of any lengths (checked under   *)
(* SpecGroupRagged)                                                        *)
(***************************************************************************)
\* The input points of the call: the positions at which all four lists have
\* an entry.
InputPoints ==
    1..ZipLen(call.timestamps, call.anomalies, call.scores, call.values)

FlaggedPoints == {i \in InputPoints : call.anomalies[i]}

\* C12: group returns the empty list if and only if no input point is flagged;
\* when a point is flagged the result is non-empty and every returned event
\* has the metric_name argument as its metric and carries a priority.
C12_EmptyIffNothingFlagged ==
    GroupDone =>
        /\ (ret.events = <<>>) <=> (FlaggedPoints = {})
        /\ FlaggedPoints # {} =>
              /\ Len(ret.events) >= 1
              /\ \A k \in 1..Len(ret.events) :
                    /\ ret.events[k].metric = call.metric_name
                    /\ "priority" \in DOMAIN ret.events[k]

\* A series for metric "memory" whose only flagged point is its last one came
\* back as one event.
C12_Witness ==
    /\ GroupDone
    /\ call.metric_name = "memory"
    /\ Len(call.timestamps) = 3
    /\ FlaggedPoints = {3}
    /\ Len(ret.events) = 1
    /\ ret.events[1].metric = "memory"

(***************************************************************************)
(* Properties of the scorers (checked under SpecScorer)                    *)
(***************************************************************************)
ScorerDone == pc = "done" /\ call.op \in {"zscore", "moving_average", "iforest", "lof", "dtai"}

ConstantSeries(X) == \A i \in 1..Len(X) : X[i] = X[1]

NoFlagNoScore(out, n) ==
    /\ out.ok
    /\ out.anomalies = [i \in 1..n |-> FALSE]
    /\ out.scores = [i \in 1..n |-> 0]

\* C13: for every constant series of length >= 1 the z-score scorer and the
\* moving-average scorer flag no point and give every point score 0.
C13_ConstantSeriesAllNormal ==
    (ScorerDone /\ call.op \in {"zscore", "moving_average"} /\ ConstantSeries(call.X))
        => NoFlagNoScore(ret.out, Len(call.X))

InUnitInterval(scores) == \A i \in 1..Len(scores) : scores[i] >= 0 /\ scores[i] <= 1000

\* C14: every score a scorer (z-score, moving-average, isolation-forest, lof,
\* dtaianomaly) emits, and every score of an outcome detect returns, lies in
\* the closed interval [0,1] (checked under SpecScorerOrDetect).
C14_ScoresInUnitInterval ==
    /\ (ScorerDone /\ ret.out.ok) => InUnitInterval(ret.out.scores)
    /\ (DetectDone /\ ~ret.raised) => InUnitInterval(ret.result.scores)

\* The z-score scorer met a spike more than two thresholds from the mean and
\* gave it score 1.
C14_Witness ==
    /\ ScorerDone
    /\ call.op = "zscore"
    /\ call.X = SpikeSeries
    /\ call.threshold = 1
    /\ ret.out.anomalies[Len(call.X)]
    /\ ret.out.scores[Len(call.X)] = 1000

\* C15: the moving-average scorer with window size w flags none of the first w
\* points and gives each of them score 0, whatever their values; for a series
\* shorter than w it returns every point non-anomalous with score 0.
C15_WarmupNeverFlagged ==
    (ScorerDone /\ call.op = "moving_average") =>
        /\ ret.out.ok
        /\ Len(ret.out.anomalies) = Len(call.X)
        /\ Len(ret.out.scores) = Len(call.X)
        /\ \A i \in 1..Len(call.X) :
              i <= call.window_size => (~ret.out.anomalies[i] /\ ret.out.scores[i] = 0)
        /\ Len(call.X) < call.window_size => NoFlagNoScore(ret.out, Len(call.X))

\* With window 3 the series 5, 0, 0, 5 had its fourth point flagged and none
\* of its first three, the first being as far from its neighbours.
C15_Witness ==
    /\ ScorerDone
    /\ call.op = "moving_average"
    /\ call.window_size = 3
    /\ call.threshold = 1
    /\ call.X = <<5, 0, 0, 5>>
    /\ ret.out.anomalies = <<FALSE, FALSE, FALSE, TRUE>>
    /\ ret.out.scores[4] > 0

\* The square of the z-score of the i-th point of the series of the call, as
\* a fraction: ((x_i - mean) / std)^2 = (n * x_i - S)^2 / (n * sum(x^2) - S^2),
\* and 1 for a constant series whose computed deviation is a rounding error.
ZSquared(i) ==
    LET n == Len(call.X)
        S == Sum(call.X)
    IN  IF ConstantSeries(call.X)
        THEN [num |-> 1, den |-> 1]
        ELSE [num |-> (n * call.X[i] - S) * (n * call.X[i] - S),
              den |-> n * SumSq(call.X) - S * S]

\* The standard deviation the scorer computes is not 0.
StdNonZero ==
    \/ ~ConstantSeries(call.X)
    \/ ~(env.mean_exact \/ Len(call.X) < 3 \/ call.X[1] = 0)

\* s is min(z / (2t), 1) in thousandths, rounded down.
IsClippedHalfRatio(s, z2, t) ==
    IF z2.num >= 4 * t * t * z2.den
    THEN s = 1000
    ELSE LET q == (1000000 * z2.num) \div (4 * t * t * z2.den)
         IN  s >= 0 /\ s * s <= q /\ q < (s + 1) * (s + 1)

\* C24: the z-score scorer with threshold t, on a series whose standard
\* deviation is not 0, flags a point exactly when |x - mean| / std > t, scores
\* it min(|x - mean| / (std * 2t), 1), and so flags it exactly when that score
\* is above 0.5.
C24_ZScoreFlagAndScore ==
    (ScorerDone /\ call.op = "zscore" /\ StdNonZero) =>
        /\ ret.out.ok
        /\ Len(ret.out.anomalies) = Len(call.X)
        /\ Len(ret.out.scores) = Len(call.X)
        /\ \A i \in 1..Len(call.X) :
              LET z2 == ZSquared(i)
                  t == call.threshold
              IN  /\ ret.out.anomalies[i] <=> (z2.num > t * t * z2.den)
                  /\ IsClippedHalfRatio(ret.out.scores[i], z2, t)
                  /\ ret.out.anomalies[i] <=>
                        (4 * Min2(z2.num, 4 * t * t * z2.den) > 4 * t * t * z2.den)
                  /\ ret.out.anomalies[i] => ret.out.scores[i] >= 500
                  /\ ~ret.out.anomalies[i] => ret.out.scores[i] <= 500

\* At the default threshold the spike of the long series was flagged with a
\* score between 0.5 and 1 and no other point was, each scoring below 0.5.
C24_Witness ==
    /\ ScorerDone
    /\ call.op = "zscore"
    /\ call.X = SpikeSeries
    /\ call.threshold = z_score_threshold
    /\ StdNonZero
    /\ ret.out.anomalies[Len(call.X)]
    /\ ret.out.scores[Len(call.X)] = 527
    /\ \A i \in 1..(Len(call.X) - 1) :
          ~ret.out.anomalies[i] /\ ret.out.scores[i] = 52

\* At threshold 1 both points of the series 0, 1 lie exactly one deviation
\* from the mean: they score exactly 0.5 and are not flagged.
ZScoreAtThresholdNotFlagged ==
    /\ ScorerDone
    /\ call.op = "zscore"
    /\ call.X = <<0, 1>>
    /\ call.threshold = 1
    /\ ret.out.anomalies = <<FALSE, FALSE>>
    /\ ret.out.scores = <<500, 500>>

(***************************************************************************)
(* Properties of the sensitivity resolver (checked under SpecResolve)      *)
(***************************************************************************)
ResolveDone == pc = "done" /\ call.op = "resolve"

KnownLevels == {"low", "medium", "high"}

\* C16: low, medium and high resolve to three pairwise distinct contamination
\* fractions, low to a strictly larger one than high; every other level string
\* resolves to the configured default contamination.
C16_ResolverTable ==
    ResolveDone =>
        /\ (call.levels[1] \in KnownLevels /\ call.levels[2] \in KnownLevels
              /\ call.levels[1] # call.levels[2])
               => ret.contaminations[1] # ret.contaminations[2]
        /\ (call.levels[1] = "low" /\ call.levels[2] = "high")
               => ret.contaminations[1] > ret.contaminations[2]
        /\ \A k \in 1..2 :
               call.levels[k] \notin KnownLevels
                   => ret.contaminations[k] = default_contamination

\* The resolver answered 0.05 for low and 0.005 for high.
C16_Witness ==
    /\ ResolveDone
    /\ call.levels = <<"low", "high">>
    /\ ret.contaminations = <<50, 5>>

(***************************************************************************)
(* Properties of repeated calls of detect (checked under SpecRepeat)       *)
(***************************************************************************)
RepeatDone == pc = "done" /\ call.op = "detect_repeat"

FirstResult == ret.results[1].result
AgainResult == ret.results[3].result

\* C17: for method 'z-score' and for method 'moving-average' the flags and
\* scores detect returns for a values list are the same under every
\* sensitivity (low, high or unknown).
C17_SensitivityIgnoredByThresholdScorers ==
    (RepeatDone /\ call.method \in {"z-score", "moving-average"}) =>
        /\ ~ret.results[1].raised /\ ~ret.results[3].raised
        /\ FirstResult.anomalies = AgainResult.anomalies
        /\ FirstResult.scores = AgainResult.scores

\* The z-score scorer flagged the spike of the long series with the same score
\* under sensitivity low and under sensitivity high.
C17_Witness ==
    /\ RepeatDone
    /\ call.method = "z-score"
    /\ call.values = SpikeSeries
    /\ call.sensitivity = "low"
    /\ call.sensitivity_again = "high"
    /\ FirstResult.anomaly_count = 1
    /\ AgainResult.anomaly_count = 1
    /\ FirstResult.scores[Len(call.values)] > 500
    /\ AgainResult.scores = FirstResult.scores

EndpointDone == pc = "done" /\ call.op = "detect_anomalies"

\* Whether the scorer selected for the k-th series of the request raises.
ScorerFails(k) ==
    ~run_method(resolve_method(call.method), call.series[k].values,
                get_contamination_by_sensitivity(call.sensitivity),
                series_env(env, k)).ok

\* The response to the k-th series of the request submitted alone, its detect
\* call meeting what it meets inside the request.
AloneResponse(k) ==
    detect_anomalies(
        [call EXCEPT !.series = <<call.series[k]>>],
        [env EXCEPT !.mean_exact = <<env.mean_exact[k]>>,
                    !.elapsed_ms = <<env.elapsed_ms[k]>>,
                    !.libs = <<env.libs[k]>>])

AllNormalSeries(r, n) ==
    /\ Len(r.anomalies) = n
    /\ \A i \in 1..n : ~r.anomalies[i].is_anomaly /\ r.anomalies[i].score = 0
    /\ r.anomaly_count = 0

\* C20: in a request with several series (the database accepting the
\* commits), if the scorer fails for a series, the request is still answered,
\* that series gets an all-normal outcome, and every series gets the outcome
\* it gets when submitted alone.
C20_ScorerFailureIsolatedPerSeries ==
    (EndpointDone /\ env.db_ok /\ \E k \in 1..Len(call.series) : ScorerFails(k)) =>
        /\ ret.response.status = 200
        /\ Len(ret.response.results) = Len(call.series)
        /\ \A k \in 1..Len(call.series) :
              /\ ScorerFails(k) =>
                    AllNormalSeries(ret.response.results[k], Len(call.series[k].values))
              /\ AloneResponse(k).status = 200
              /\ ret.response.results[k] = AloneResponse(k).results[1]

\* The isolation-forest model of the first of two series raised; the request
\* was answered with that series all normal and the other series' two
\* outliers reported.
C20_Witness ==
    /\ EndpointDone
    /\ env.db_ok
    /\ call.method = "isolation-forest"
    /\ Len(call.series) = 2
    /\ env.libs[1].kind = "raise"
    /\ env.libs[2].kind = "ok"
    /\ ret.response.status = 200
    /\ ret.response.results[1].anomaly_count = 0
    /\ ret.response.results[2].anomaly_count = 2
    /\ ret.response.total_anomalies = 2

(***************************************************************************)
(* Properties of the engine under runs of calls (checked under SpecEngine) *)
(***************************************************************************)
\* What a call returns on an engine as constructed, given only the call's
\* arguments and the environment of that call.
OutcomeOnFreshEngine(h) ==
    IF h.call.op = "detect"
    THEN detect(h.call.timestamps, h.call.values, h.call.method, h.call.sensitivity, h.e)
    ELSE group_anomalies(h.call.timestamps, h.call.anomalies, h.call.scores,
                         h.call.values, h.call.metric_name)

Answered == EndpointDone /\ ret.response.status = 200

\* The entries of grouped_events, none when the field is null.
GroupedEvents ==
    IF ret.response.grouped_events.present
    THEN ret.response.grouped_events.events
    ELSE <<>>

\* The events group_anomalies returns for the k-th series of the request.
EventsOfSeries(k) ==
    LET r == ret.response.results[k]
    IN  group_anomalies(call.series[k].timestamps,
                        [i \in 1..Len(r.anomalies) |-> r.anomalies[i].is_anomaly],
                        [i \in 1..Len(r.anomalies) |-> r.anomalies[i].score],
                        [i \in 1..Len(r.anomalies) |-> r.anomalies[i].value],
                        call.series[k].metric_name)

EventCountOfSeries(k) == Len(EventsOfSeries(k))

\* C22: the grouped_events list of an answered request holds the events of
\* all its series and is sorted by priority, highest first, across all series.
C22_GroupedEventsSortedAcrossSeries ==
    Answered =>
        /\ Len(GroupedEvents) =
              SumUpTo(Len(call.series),
                      [k \in 1..Len(call.series) |-> EventCountOfSeries(k)])
        /\ \A i, j \in 1..Len(GroupedEvents) :
              i < j => GroupedEvents[i].priority >= GroupedEvents[j].priority

\* C23: an answered request's response holds one result per submitted series,
\* in the request's order, each with its series' resource_id and metric_name;
\* total_series is the number of series and total_anomalies the sum of the
\* results' anomaly_count.
C23_OneResultPerSeriesInOrder ==
    Answered =>
        /\ Len(ret.response.results) = Len(call.series)
        /\ \A k \in 1..Len(call.series) :
              /\ ret.response.results[k].resource_id = call.series[k].resource_id
              /\ ret.response.results[k].metric_name = call.series[k].metric_name
        /\ ret.response.total_series = Len(call.series)
        /\ ret.response.total_anomalies =
              SumUpTo(Len(call.series),
                      [k \in 1..Len(call.series) |->
                          ret.response.results[k].anomaly_count])

\* A request of two series of different resources was answered, the first
\* with two anomalies and the second with none.
C23_Witness ==
    /\ Answered
    /\ Len(call.series) = 2
    /\ call.series[1].resource_id = "pod-b"
    /\ call.series[2].resource_id = "pod-a"
    /\ ret.response.results[1].resource_id = "pod-b"
    /\ ret.response.results[1].anomaly_count = 2
    /\ ret.response.results[2].anomaly_count = 0
    /\ ret.response.total_series = 2
    /\ ret.response.total_anomalies = 2

\* The number of grouped_events entries that come before those of series k.
RECURSIVE EntriesBefore(_)
EntriesBefore(k) ==
    IF k <= 1 THEN 0 ELSE EntriesBefore(k - 1) + EventCountOfSeries(k - 1)

\* C30: in an answered request group_anomalies is called only for series
\* whose anomaly_count is above 0 (and for each of those once, in request
\* order); every grouped_events entry carries the resource_id of the series
\* whose points produced it; and grouped_events is null exactly when no series
\* produced an event.
C30_GroupedOnlyWhenFlaggedAndLabelled ==
    Answered =>
        /\ \A c \in 1..Len(ret.group_calls) :
              /\ ret.group_calls[c] \in 1..Len(call.series)
              /\ ret.response.results[ret.group_calls[c]].anomaly_count > 0
              /\ \A d \in 1..Len(ret.group_calls) :
                    c < d => ret.group_calls[c] < ret.group_calls[d]
        /\ \A k \in 1..Len(call.series) :
              /\ ret.response.results[k].anomaly_count > 0
                    => \E c \in 1..Len(ret.group_calls) : ret.group_calls[c] = k
              /\ EntriesBefore(k) + EventCountOfSeries(k) <= Len(GroupedEvents)
              /\ \A j \in 1..EventCountOfSeries(k) :
                    LET entry == GroupedEvents[EntriesBefore(k) + j]
                        event == EventsOfSeries(k)[j]
                    IN  /\ entry.resource_id = call.series[k].resource_id
                        /\ entry.metric = call.series[k].metric_name
                        /\ entry.start_time = event.start_time
                        /\ entry.end_time = event.end_time
                        /\ entry.priority = event.priority
                        /\ entry.max_score = event.max_score
                        /\ entry.anomaly_points = event.anomaly_points
        /\ Len(GroupedEvents) =
              EntriesBefore(Len(call.series)) + EventCountOfSeries(Len(call.series))
        /\ ~ret.response.grouped_events.present
              <=> (\A k \in 1..Len(call.series) : EventCountOfSeries(k) = 0)

\* Of two series of different resources the first had no anomaly and was not
\* grouped, the second had two and was: both entries of grouped_events name
\* the second series' resource.
C30_Witness ==
    /\ Answered
    /\ Len(call.series) = 2
    /\ call.series[1].resource_id = "pod-a"
    /\ call.series[2].resource_id = "pod-b"
    /\ ret.response.results[1].anomaly_count = 0
    /\ ret.response.results[2].anomaly_count = 2
    /\ ret.group_calls = <<2>>
    /\ ret.response.grouped_events.present
    /\ Len(GroupedEvents) = 2
    /\ \A j \in 1..2 : GroupedEvents[j].resource_id = "pod-b"

\* A request none of whose series had an anomaly was answered with
\* grouped_events null and without a call of group_anomalies.
NothingFlaggedNothingGrouped ==
    /\ Answered
    /\ Len(call.series) = 2
    /\ ret.response.total_anomalies = 0
    /\ ret.group_calls = <<>>
    /\ ~ret.response.grouped_events.present

====
